---- MODULE Spec2Model ----
(***************************************************************************)
(* AnkiLingoFlash: the provider gateway of src/common/background_common.js *)
(* (callAIProviderAPI, getOrCreateConversation, decryptApiKey and the      *)
(* settings handlers that write the storage keys the gateway reads).       *)
(***************************************************************************)
EXTENDS Integers, Sequences, FiniteSets, TLC

(***************************************************************************)
(* Bounds of the model.                                                    *)
(***************************************************************************)
\* total number of generate requests the content scripts send
MaxRequests == 2

\* the gateway invocations that can be in flight at the same time
CallIds == {1, 2}

(***************************************************************************)
(* Program constants.                                                      *)
(***************************************************************************)
CONVERSATION_TYPES ==
    {"flashcard", "definition", "mnemonic", "translation", "examples", "translation_popup"}

OPENAI == "openai"
GOOGLE == "google"
AI_PROVIDERS == {OPENAI, GOOGLE}

\* result.learningGoal || "General language learning"
DEFAULT_LEARNING_GOAL == "General language learning"

\* the model of the free tier and of an own-credits user who chose none
DEFAULT_REMOTE_MODEL == "CONFIG.DEFAULT_REMOTE_MODEL"
DEFAULT_GOOGLE_MODEL == "models/gemini-2.5-flash-preview-05-20"

\* the endpoints a request is sent to
WORKER_URL == "worker"
OPENAI_URL == "api.openai.com"
GOOGLE_API_BASE_URL == "generativelanguage.googleapis.com"

(***************************************************************************)
(* Input domains.  A falsy JavaScript value (undefined, null, "") is the   *)
(* empty string.  API keys and passwords are strings of UTF-16 code units. *)
(***************************************************************************)
NoKey == << >>
NoPassword == << >>
UserIds == {"u1"}
\* request.type: CONVERSATION_TYPES[part.toUpperCase()] is undefined for an
\* unknown part; "bogus" stands for every value outside the enumeration
RequestTypes == {"flashcard", "definition", "bogus"}
\* the purpose type of the requests that overlap
ConcurrentTypes == {"flashcard"}
UserMessages == {"m1", "m2"}
\* "k2"
ExplicitKeys == {NoKey, << 107, 50 >>}
\* "k1"
StoredKeys == {<< 107, 49 >>}
\* "p1"
Passwords == {<< 112, 49 >>}
\* what crypto.getRandomValues gave the settings page for the salt and the IV;
\* a number stands for one random byte string
PageSalts == {1}
PageIVs == {2}
LearningGoals == {"", "g1"}
\* reply texts: JsonReplies parse, the others make JSON.parse throw
JsonReplies == {"r1"}
ReplyTexts == JsonReplies \cup {"x1"}

\* no CryptoKey
NoCryptoKey == [password |-> << >>, salt |-> 0]
\* no ciphertext
NoCiphertext == [key |-> NoCryptoKey, iv |-> 0, data |-> << >>, intact |-> FALSE]
\* result[encryptedKeyField] is null or undefined
NoBlob == [present |-> FALSE, salt |-> 0, iv |-> 0, encrypted |-> NoCiphertext]
NoConversation == [present |-> FALSE, messages |-> << >>]

ConversationKeys == UserIds \X RequestTypes

(***************************************************************************)
(* Pure functions.                                                         *)
(***************************************************************************)
\* Object.values(CONVERSATION_TYPES).includes(type)
IsKnownType(type) == type \in CONVERSATION_TYPES

\* chrome.i18n.getMessage(name, [learningGoal]): the template and its argument
getSystemPrompt(type, learningGoal) ==
    CASE type = "flashcard"         -> [text |-> "generateFlashcardInstructions", goal |-> learningGoal]
      [] type = "definition"        -> [text |-> "helpfulAssistantDefinition", goal |-> ""]
      [] type = "mnemonic"          -> [text |-> "creativeAssistantMnemonic", goal |-> ""]
      [] type = "translation"       -> [text |-> "translationAssistant", goal |-> ""]
      [] type = "examples"          -> [text |-> "examplesAssistant", goal |-> learningGoal]
      [] type = "translation_popup" -> [text |-> "translationAssistant", goal |-> ""]
      [] OTHER                      -> [text |-> "generateFlashcardInstructions", goal |-> learningGoal]

SystemMessage(type, learningGoal) ==
    [role |-> "system", content |-> getSystemPrompt(type, learningGoal)]

UserMessage(text) == [role |-> "user", content |-> [text |-> text, goal |-> ""]]

AssistantMessage(text) == [role |-> "assistant", content |-> [text |-> text, goal |-> ""]]

\* UTF-16 surrogate code units
IsHighSurrogate(u) == u >= 55296 /\ u <= 56319
IsLowSurrogate(u) == u >= 56320 /\ u <= 57343

\* the scalar values of a string: a surrogate pair is one code point, an
\* unpaired surrogate becomes U+FFFD (conversion to a USVString)
RECURSIVE ScalarValues(_, _)
ScalarValues(units, i) ==
    IF i > Len(units)
    THEN << >>
    ELSE IF IsHighSurrogate(units[i]) /\ i < Len(units) /\ IsLowSurrogate(units[i + 1])
         THEN << 65536 + (units[i] - 55296) * 1024 + (units[i + 1] - 56320) >>
                 \o ScalarValues(units, i + 2)
         ELSE IF IsHighSurrogate(units[i]) \/ IsLowSurrogate(units[i])
              THEN << 65533 >> \o ScalarValues(units, i + 1)
              ELSE << units[i] >> \o ScalarValues(units, i + 1)

\* the UTF-8 bytes of one scalar value
UTF8Bytes(cp) ==
    IF cp < 128
    THEN << cp >>
    ELSE IF cp < 2048
         THEN << 192 + (cp \div 64), 128 + (cp % 64) >>
         ELSE IF cp < 65536
              THEN << 224 + (cp \div 4096), 128 + ((cp \div 64) % 64), 128 + (cp % 64) >>
              ELSE << 240 + (cp \div 262144), 128 + ((cp \div 4096) % 64),
                      128 + ((cp \div 64) % 64), 128 + (cp % 64) >>

RECURSIVE EncodeFrom(_, _)
EncodeFrom(cps, i) ==
    IF i > Len(cps) THEN << >> ELSE UTF8Bytes(cps[i]) \o EncodeFrom(cps, i + 1)

\* new TextEncoder().encode(text)
TextEncoder_encode(text) == EncodeFrom(ScalarValues(text, 1), 1)

\* how many bytes the sequence led by byte b has; 0 for a byte that leads none
SequenceLength(b) ==
    IF b < 128 THEN 1
    ELSE IF b >= 192 /\ b < 224 THEN 2
    ELSE IF b >= 224 /\ b < 240 THEN 3
    ELSE IF b >= 240 /\ b < 248 THEN 4
    ELSE 0

\* the scalar values of UTF-8 bytes; U+FFFD for what is not a sequence
RECURSIVE DecodeFrom(_, _)
DecodeFrom(bytes, i) ==
    IF i > Len(bytes)
    THEN << >>
    ELSE LET n == SequenceLength(bytes[i])
         IN  IF n = 0 \/ i + n - 1 > Len(bytes)
             THEN << 65533 >> \o DecodeFrom(bytes, i + 1)
             ELSE IF n = 1
             THEN << bytes[i] >> \o DecodeFrom(bytes, i + 1)
             ELSE IF n = 2
             THEN << (bytes[i] - 192) * 64 + (bytes[i + 1] - 128) >>
                     \o DecodeFrom(bytes, i + 2)
             ELSE IF n = 3
             THEN << (bytes[i] - 224) * 4096 + (bytes[i + 1] - 128) * 64
                        + (bytes[i + 2] - 128) >> \o DecodeFrom(bytes, i + 3)
             ELSE << (bytes[i] - 240) * 262144 + (bytes[i + 1] - 128) * 4096
                        + (bytes[i + 2] - 128) * 64 + (bytes[i + 3] - 128) >>
                     \o DecodeFrom(bytes, i + 4)

\* the decoder is made without ignoreBOM: a leading U+FEFF is dropped
StripBOM(cps) == IF Len(cps) > 0 /\ cps[1] = 65279 THEN Tail(cps) ELSE cps

\* the UTF-16 code units of one scalar value
UTF16Units(cp) ==
    IF cp > 65535
    THEN << 55296 + ((cp - 65536) \div 1024), 56320 + ((cp - 65536) % 1024) >>
    ELSE << cp >>

RECURSIVE UnitsFrom(_, _)
UnitsFrom(cps, i) ==
    IF i > Len(cps) THEN << >> ELSE UTF16Units(cps[i]) \o UnitsFrom(cps, i + 1)

\* a decoder that takes every byte for one code unit
TextDecoder_decode_Bytes(bytes) == bytes

\* new TextDecoder().decode(bytes)
TextDecoder_decode(bytes) == UnitsFrom(StripBOM(DecodeFrom(bytes, 1)), 1)

\* importKey + deriveKey: PBKDF2 of the encoded password and the salt
deriveKey(password, salt) == [password |-> TextEncoder_encode(password), salt |-> salt]

\* crypto.subtle.encrypt({ name: "AES-GCM", iv }, derivedKey, data): the
\* ciphertext and its tag, readable only under the same key and IV
AES_GCM_encrypt(key, iv, data) == [key |-> key, iv |-> iv, data |-> data, intact |-> TRUE]

\* a decryption that accepts any key when the ciphertext is unaltered
AES_GCM_decrypt_TagOnly(key, iv, ciphertext) ==
    IF ciphertext.intact
    THEN [ok |-> TRUE, data |-> ciphertext.data]
    ELSE [ok |-> FALSE, data |-> << >>]

\* crypto.subtle.decrypt: AES-GCM authenticates the ciphertext under the key
\* and the IV, and rejects on a mismatch
AES_GCM_decrypt(key, iv, ciphertext) ==
    IF ciphertext.intact /\ ciphertext.key = key /\ ciphertext.iv = iv
    THEN [ok |-> TRUE, data |-> ciphertext.data]
    ELSE [ok |-> FALSE, data |-> << >>]

\* the promise of decryptApiKey is fulfilled
DecryptSucceeds(blob, password) ==
    AES_GCM_decrypt(deriveKey(password, blob.salt), blob.iv, blob.encrypted).ok

\* a decryption that authenticates nothing
decryptApiKey_NoAuth(blob, password) ==
    [ok |-> TRUE, key |-> TextDecoder_decode(blob.encrypted.data), error |-> ""]

\* decryptApiKey(encryptedData, password): the decoded plaintext, or the
\* rejection of crypto.subtle.decrypt
decryptApiKey(blob, password) ==
    LET decrypted == AES_GCM_decrypt(deriveKey(password, blob.salt), blob.iv,
                                     blob.encrypted)
    IN  IF decrypted.ok
        THEN [ok |-> TRUE, key |-> TextDecoder_decode(decrypted.data), error |-> ""]
        ELSE [ok |-> FALSE, key |-> NoKey, error |-> "OperationError"]

\* an encryption under one IV for every call
encryptApiKey_FixedIV(apiKey, password, salt, iv) ==
    [present |-> TRUE, salt |-> salt, iv |-> 1,
     encrypted |-> AES_GCM_encrypt(deriveKey(password, salt), 1,
                                   TextEncoder_encode(apiKey))]

\* an encoding of the key that is stored as it is
encryptApiKey_Plain(apiKey, password, salt, iv) ==
    [present |-> TRUE, salt |-> salt, iv |-> iv,
     encrypted |-> [key |-> NoCryptoKey, iv |-> iv,
                    data |-> TextEncoder_encode(apiKey), intact |-> TRUE]]

\* encryptApiKey: the blob made of the key and the password, with what
\* crypto.getRandomValues gave for the salt and the IV
encryptApiKey(apiKey, password, salt, iv) ==
    [present |-> TRUE, salt |-> salt, iv |-> iv,
     encrypted |-> AES_GCM_encrypt(deriveKey(password, salt), iv,
                                   TextEncoder_encode(apiKey))]

\* JSON.parse(content)
JsonParses(text) == text \in JsonReplies

\* [messages[0], ...messages.slice(-2)]
LastTwo(messages) ==
    IF Len(messages) <= 2 THEN messages
    ELSE SubSeq(messages, Len(messages) - 1, Len(messages))

\* a trim that keeps the whole history
TrimOpenAI_KeepAll(messages) == messages

TrimOpenAI(messages) == << messages[1] >> \o LastTwo(messages)

TrimGoogle(messages) ==
    IF Len(messages) > 0 /\ messages[1].role = "system"
    THEN << messages[1] >> \o LastTwo(messages)
    ELSE LastTwo(messages)

(***************************************************************************)
(* Credential resolution and purpose validation: the part of the           *)
(* chrome.storage.sync.get callback of callAIProviderAPI that runs before  *)
(* the try block, in the order of the code.  st is the storage snapshot.   *)
(***************************************************************************)
ProviderOf(st) == IF st.selectedProvider = "" THEN OPENAI ELSE st.selectedProvider

LearningGoalOf(st) == IF st.learningGoal = "" THEN DEFAULT_LEARNING_GOAL ELSE st.learningGoal

\* value || fallback, for a stored model name
ModelOr(value, fallback) == IF value = "" THEN fallback ELSE value

\* result.isOwnCredits ? (result.model || DEFAULT_REMOTE_MODEL) : DEFAULT_REMOTE_MODEL
OpenAIModelToUse(isOwnCredits, model) ==
    IF isOwnCredits THEN ModelOr(model, DEFAULT_REMOTE_MODEL) ELSE DEFAULT_REMOTE_MODEL

\* result.googleModel || CONFIG.DEFAULT_GOOGLE_MODEL
GoogleModelToUse(googleModel) == ModelOr(googleModel, DEFAULT_GOOGLE_MODEL)

EncryptedKeyField(st) ==
    IF ProviderOf(st) = GOOGLE THEN st.encryptedGoogleApiKey ELSE st.encryptedApiKey

Rejected(error, key, decrypted) ==
    [ok |-> FALSE, error |-> error, apiKeyToUse |-> key, decrypted |-> decrypted]

Resolved(key, decrypted) ==
    [ok |-> TRUE, error |-> "", apiKeyToUse |-> key, decrypted |-> decrypted]

\* a validation that lets every type through
ValidateType_AcceptAll(type, key, decrypted) == Resolved(key, decrypted)

\* if (!Object.values(CONVERSATION_TYPES).includes(type)) reject(...)
ValidateType(type, key, decrypted) ==
    IF ~IsKnownType(type)
    THEN Rejected("Invalid conversation type", key, decrypted)
    ELSE Resolved(key, decrypted)

\* if (!apiKeyToUse && result.isOwnCredits) reject(...)
CheckKeyPresent(st, type, key, decrypted) ==
    IF key = NoKey /\ st.isOwnCredits
    THEN Rejected(IF ProviderOf(st) = GOOGLE THEN "googleApiKeyMissing" ELSE "apiKeyMissing",
                  key, decrypted)
    ELSE ValidateType(type, key, decrypted)

\* a resolution that prefers the stored key to the explicit one
ResolveApiKey_StoredFirst(st, type, apiKey) ==
    IF st.isOwnCredits
    THEN IF EncryptedKeyField(st).present /\ st.installationPassword # NoPassword
         THEN LET d == decryptApiKey(EncryptedKeyField(st), st.installationPassword)
              IN  IF d.ok
                  THEN CheckKeyPresent(st, type, d.key, TRUE)
                  ELSE Rejected("failedToDecryptApiKey", NoKey, TRUE)
         ELSE CheckKeyPresent(st, type, apiKey, FALSE)
    ELSE CheckKeyPresent(st, type, apiKey, FALSE)

\* let apiKeyToUse = apiKey; if (result.isOwnCredits && !apiKeyToUse) { decrypt }
ResolveApiKey(st, type, apiKey) ==
    IF st.isOwnCredits /\ apiKey = NoKey
    THEN IF EncryptedKeyField(st).present /\ st.installationPassword # NoPassword
         THEN LET d == decryptApiKey(EncryptedKeyField(st), st.installationPassword)
              IN  IF d.ok
                  THEN CheckKeyPresent(st, type, d.key, TRUE)
                  ELSE Rejected("failedToDecryptApiKey", NoKey, TRUE)
         ELSE Rejected(IF ProviderOf(st) = GOOGLE
                       THEN "googleApiKeyMissingOrNotEncrypted"
                       ELSE "apiKeyMissingOrNotEncrypted", NoKey, FALSE)
    ELSE CheckKeyPresent(st, type, apiKey, FALSE)

\* a gate that trusts a credential the caller supplies
GatewayChecks_TrustExplicit(st, type, apiKey) ==
    IF apiKey # NoKey
    THEN ResolveApiKey(st, type, apiKey)
    ELSE IF st.isOwnCredits /\ ProviderOf(st) = OPENAI /\ ~st.apiKeyValidated
    THEN Rejected("enterValidApiKey", NoKey, FALSE)
    ELSE IF st.isOwnCredits /\ ProviderOf(st) = GOOGLE /\ ~st.googleApiKeyValidated
    THEN Rejected("enterValidGoogleApiKey", NoKey, FALSE)
    ELSE ResolveApiKey(st, type, apiKey)

\* if (result.isOwnCredits) { the validated flag of the selected provider }
GatewayChecks(st, type, apiKey) ==
    IF st.isOwnCredits /\ ProviderOf(st) = OPENAI /\ ~st.apiKeyValidated
    THEN Rejected("enterValidApiKey", NoKey, FALSE)
    ELSE IF st.isOwnCredits /\ ProviderOf(st) = GOOGLE /\ ~st.googleApiKeyValidated
    THEN Rejected("enterValidGoogleApiKey", NoKey, FALSE)
    ELSE ResolveApiKey(st, type, apiKey)

(***************************************************************************)
(* Request construction.                                                   *)
(***************************************************************************)
\* an OpenAI branch that always inserts a system message
PrepareOpenAIMessages_AlwaysUnshift(messages, type, learningGoal, userMessage) ==
    Append(<< SystemMessage(type, learningGoal) >> \o messages, UserMessage(userMessage))

\* OpenAI branch: refresh or insert the system message, then push the user message
PrepareOpenAIMessages(messages, type, learningGoal, userMessage) ==
    LET sys == SystemMessage(type, learningGoal)
        withSystem == IF Len(messages) = 0 \/ messages[1].role # "system"
                      THEN << sys >> \o messages
                      ELSE [messages EXCEPT ![1].content = sys.content]
    IN  Append(withSystem, UserMessage(userMessage))

\* a Google branch that converts the stored history into turns
BuildRequest_SendHistory(call, messages) ==
    IF call.provider = OPENAI
    THEN [sent |-> TRUE,
          url |-> IF call.isOwnCredits THEN OPENAI_URL ELSE WORKER_URL,
          credential |-> IF call.isOwnCredits THEN call.apiKeyToUse ELSE NoKey,
          model |-> OpenAIModelToUse(call.isOwnCredits, call.model),
          userId |-> IF call.isOwnCredits THEN "" ELSE call.userId,
          messages |-> messages]
    ELSE [sent |-> TRUE,
          url |-> GOOGLE_API_BASE_URL,
          credential |-> call.apiKeyToUse,
          model |-> GoogleModelToUse(call.googleModel),
          userId |-> "",
          messages |-> SubSeq(messages, 2, Len(messages)) \o
                       << [role |-> "user",
                           content |-> [text |-> call.message,
                                        goal |-> "",
                                        system |-> getSystemPrompt(call.type,
                                                                   call.learningGoal)]] >>]

\* the request handed to fetch
BuildRequest(call, messages) ==
    IF call.provider = OPENAI
    THEN [sent |-> TRUE,
          url |-> IF call.isOwnCredits THEN OPENAI_URL ELSE WORKER_URL,
          credential |-> IF call.isOwnCredits THEN call.apiKeyToUse ELSE NoKey,
          model |-> OpenAIModelToUse(call.isOwnCredits, call.model),
          userId |-> IF call.isOwnCredits THEN "" ELSE call.userId,
          messages |-> messages]
    ELSE [sent |-> TRUE,
          url |-> GOOGLE_API_BASE_URL,
          credential |-> call.apiKeyToUse,
          model |-> GoogleModelToUse(call.googleModel),
          userId |-> "",
          messages |-> << [role |-> "user",
                           content |-> [text |-> call.message,
                                        goal |-> "",
                                        system |-> getSystemPrompt(call.type, call.learningGoal)]] >>]

\* the local conversation object once the request has been built
MessagesAfterBuild(call, messages) ==
    IF call.provider = OPENAI
    THEN PrepareOpenAIMessages(messages, call.type, call.learningGoal, call.message)
    ELSE messages

\* the conversation written back after a well-formed reply
MessagesAfterReply(call, replyText) ==
    IF call.provider = OPENAI
    THEN TrimOpenAI(Append(call.conversation, AssistantMessage(replyText)))
    ELSE TrimGoogle(call.conversation \o
                    << UserMessage(call.message), AssistantMessage(replyText) >>)

(***************************************************************************)
(* Error texts.  A text is the set of the phrases it is made of; a needle   *)
(* is found in a text when it is a substring of one of its phrases.         *)
(***************************************************************************)
\* the phrases provider payloads and browsers are drawn from
PayloadPhrases ==
    {"does not exist", "Not Found", "json_schema is not supported",
     "Structured outputs are not supported", "exceeded your quota", "billing",
     "Invalid JSON payload", "connection reset", "Failed to fetch", "Incorrect API key",
     "slow down"}

\* String.prototype.toLowerCase, phrase by phrase
LowerPhrase(ph) ==
    CASE ph = "Not Found" -> "not found"
      [] ph = "Structured outputs are not supported" -> "structured outputs are not supported"
      [] ph = "Invalid JSON payload" -> "invalid json payload"
      [] ph = "Failed to fetch" -> "failed to fetch"
      [] ph = "Incorrect API key" -> "incorrect api key"
      [] ph = "NetworkError when attempting to fetch resource." ->
             "networkerror when attempting to fetch resource."
      [] ph = "HTTP error! status" -> "http error! status"
      [] ph = "Bad Request" -> "bad request"
      [] ph = "Unauthorized" -> "unauthorized"
      [] ph = "Forbidden" -> "forbidden"
      [] ph = "Too Many Requests" -> "too many requests"
      [] ph = "Internal Server Error" -> "internal server error"
      [] ph = "Service Unavailable" -> "service unavailable"
      [] OTHER -> ph

toLowerCase(text) == { LowerPhrase(ph) : ph \in text }

\* the needles of isUnsupportedModelError, isNetworkError and getApiErrorMessage
\* that are substrings of a phrase (patterns with .* stand for their matches)
Substrings(ph) ==
    CASE ph = "does not exist" -> {"does not exist"}
      [] ph = "not found" -> {"not found"}
      [] ph = "json_schema is not supported" ->
             {"is not supported", "not supported", "json_schema.*is not supported"}
      [] ph = "structured outputs are not supported" ->
             {"not supported", "structured outputs.*not supported"}
      [] ph = "exceeded your quota" -> {"exceeded", "quota"}
      [] ph = "billing" -> {"billing"}
      [] ph = "Invalid JSON payload" -> {"JSON"}
      [] ph = "invalid json payload" -> {"invalid"}
      [] ph = "connection reset" -> {"connection"}
      [] ph = "Failed to fetch" -> {"Failed to fetch", "fetch"}
      [] ph = "failed to fetch" -> {"fetch"}
      [] ph = "incorrect api key" -> {"incorrect"}
      [] ph = "slow down" -> {"slow down"}
      [] ph = "mnemonic" -> {"mnemonic"}
      [] ph = "NetworkError when attempting to fetch resource." -> {"fetch"}
      [] ph = "networkerror when attempting to fetch resource." -> {"fetch", "network"}
      [] OTHER -> {}

\* String.prototype.includes
includes(text, needle) == \E ph \in text : needle \in Substrings(ph)

\* new RegExp(indicator, 'i').test(text)
regexTestIgnoreCase(text, pattern) == includes(toLowerCase(text), pattern)

\* response.statusText
statusText(status) ==
    CASE status = 400 -> "Bad Request"
      [] status = 401 -> "Unauthorized"
      [] status = 403 -> "Forbidden"
      [] status = 404 -> "Not Found"
      [] status = 429 -> "Too Many Requests"
      [] status = 500 -> "Internal Server Error"
      [] OTHER -> "Service Unavailable"

\* errorData: {} when the error body is no JSON, else { error: { type, message } }
NoErrorData == [hasError |-> FALSE, type |-> "", message |-> {}]

\* errorData.error?.message || fallback
MessageOr(errorData, fallback) ==
    IF errorData.hasError /\ errorData.message # {} THEN errorData.message ELSE fallback

(***************************************************************************)
(* Error classification in the background script.                          *)
(***************************************************************************)
ModelErrorIndicators ==
    {"does not exist", "invalid model", "not found", "is not supported", "unknown model"}

ModelErrorPatterns ==
    {"response_format.*json_schema.*is not supported with this model",
     "json_schema.*is not supported", "structured outputs.*not supported"}

GoogleModelErrorIndicators ==
    {"not found", "invalid model", "does not exist", "unknown model", "is not supported"}

\* an indicator test that compares the message as received
isUnsupportedModelError_CaseSensitive(errorData, status) ==
    IF ~errorData.hasError
    THEN FALSE
    ELSE IF errorData.type = "invalid_request_error"
         THEN \/ \E i \in ModelErrorIndicators : includes(errorData.message, i)
              \/ \E r \in ModelErrorPatterns : regexTestIgnoreCase(errorData.message, r)
         ELSE \E i \in GoogleModelErrorIndicators : includes(errorData.message, i)

isUnsupportedModelError(errorData, status) ==
    IF ~errorData.hasError
    THEN FALSE
    ELSE IF errorData.type = "invalid_request_error"
         THEN \/ \E i \in ModelErrorIndicators :
                    includes(toLowerCase(errorData.message), i)
              \/ \E r \in ModelErrorPatterns : regexTestIgnoreCase(errorData.message, r)
         ELSE \E i \in GoogleModelErrorIndicators :
                    includes(toLowerCase(errorData.message), i)

isNetworkError(message, status) ==
    \/ includes(message, "Failed to fetch")
    \/ includes(message, "Network request failed")
    \/ (includes(message, "fetch") /\ includes(message, "timeout"))
    \/ (status >= 500 /\ status < 600)

(***************************************************************************)
(* State.                                                                  *)
(***************************************************************************)
VARIABLES
    settings,       \* chrome.storage.sync: the keys callAIProviderAPI reads
    conversations,  \* chrome.storage.sync: conversation_<userId>_<type>
    calls,          \* the callAIProviderAPI invocations and where each one is
    requestCount,   \* callChatGPTAPI messages received so far
    failure,        \* a failed provider exchange on its way to the user's toast
    adapter,        \* a request body under construction: the response schema asked for
    translationCache, \* chrome.storage.sync: translation_cache_<hash>_<language>
    now,            \* Date.now(), in milliseconds since the model's start
    lookup,         \* what the last getCachedTranslation resolved with
    lastPut,        \* per cache key, the cacheEntry of the last setCachedTranslation
    cacheSteps,     \* cache writes and clock advances so far
    vault,          \* an API key on its way through encryptApiKey and decryptApiKey
    generation,     \* the flashcard generation of the content script and where it is
    quotaRequests,  \* requests sent to the quota service, per endpoint
    validation,     \* the key validation of the settings page and where it is
    quota,          \* the quota service's count and the generations of each tab
    regeneration,   \* a stored flashcard and the regenerations of its parts
    translationRequests, \* translationRequestInProgress and the translation requests
    toasts          \* the toast container, the current toast and the toast timers

\* the state of the gateway in the background script
gatewayVars == << settings, conversations, calls, requestCount >>

\* the state of the translation cache
cacheVars == << translationCache, now, lookup, lastPut, cacheSteps >>

\* the state of a flashcard generation
generateVars == << generation, quotaRequests >>

\* the state of the settings page and of the page the content script runs in
pageVars == << validation, quota, regeneration, translationRequests, toasts >>

\* the state of the content script's helpers
contentVars == << failure, adapter, cacheVars, vault, generateVars, pageVars >>

vars == << gatewayVars, contentVars >>

NoRequest ==
    [sent |-> FALSE, url |-> "", credential |-> NoKey, model |-> "", userId |-> "",
     messages |-> << >>]

NoResponse ==
    [sent |-> FALSE, success |-> FALSE, data |-> "", error |-> "", status |-> 0, provider |-> ""]

IdleCall ==
    [pc |-> "idle", userId |-> "", type |-> "", message |-> "", apiKey |-> NoKey,
     provider |-> "", isOwnCredits |-> FALSE, learningGoal |-> "",
     model |-> "", googleModel |-> "",
     apiKeyToUse |-> NoKey, decrypted |-> FALSE, conversation |-> << >>,
     request |-> NoRequest, response |-> NoResponse]

\* the provider's answers to one fetch
ProviderOutcomes ==
    [kind : {"transport", "malformed"}, status : {0}, text : {""}]
      \cup [kind : {"http"}, status : {404}, text : {""}]
      \cup [kind : {"ok"}, status : {200}, text : ReplyTexts]

\* no provider exchange has failed yet
NoErrorResponse ==
    [success |-> FALSE, error |-> {}, status |-> 0, hasErrorData |-> FALSE,
     errorData |-> NoErrorData, isUnsupportedModel |-> FALSE, provider |-> ""]

NoFailure ==
    [phase |-> "idle", kind |-> "", response |-> NoErrorResponse, toast |-> ""]

\* no request body is under construction
NoSchema == [envelope |-> "", type |-> "", properties |-> {}, required |-> << >>]

NoAdapter ==
    [phase |-> "idle", type |-> "", userMessage |-> {},
     responseFormat |-> NoSchema, googleResponseSchema |-> NoSchema]

\* hash = ((hash << 5) - hash) + char; hash = hash & hash, on 32-bit integers
ToInt32(x) ==
    IF x > 2147483647
    THEN (x - 2147483647) - 2147483647 - 2
    ELSE IF x < -2147483647 - 1
         THEN (x + 2147483647) + 2147483647 + 2
         ELSE x

RECURSIVE HashFrom(_, _, _)
HashFrom(hash, text, i) ==
    IF i > Len(text)
    THEN hash
    ELSE HashFrom(ToInt32(ToInt32(ToInt32(hash * 32) - hash) + text[i]), text, i + 1)

\* createTextHash(text); toString(36) is one-to-one on integers and is left out
createTextHash(text) == HashFrom(0, text, 1)

\* the selected texts, as char codes: "Aa", "BB" (same hash as "Aa") and "Ab"
CacheTexts == { << 65, 97 >>, << 66, 66 >>, << 65, 98 >> }

Languages == {"english_us"}

\* chrome.i18n.getMessage(language): the name of the language in the prompts
NaturalLanguageName(language) == "English (US)"

\* the language arguments the cache functions are called with
CacheLanguages == Languages \cup { NaturalLanguageName(l) : l \in Languages }

Translations == {"tr1", "tr2"}

\* createTranslationCacheKey(text, language): `translation_cache_${textHash}_${language}`
createTranslationCacheKey(text, language) == << createTextHash(text), language >>

CacheKeys == { createTranslationCacheKey(t, l) : t \in CacheTexts, l \in CacheLanguages }

\* result[cacheKey] undefined
NoEntry ==
    [present |-> FALSE, translation |-> "", timestamp |-> 0,
     sourceText |-> << >>, targetLanguage |-> ""]

\* getCachedTranslation has not resolved yet
NoLookup ==
    [done |-> FALSE, text |-> << >>, language |-> "", hit |-> FALSE,
     translation |-> "", at |-> 0]

\* setCachedTranslation has not been called yet
NoPut == [done |-> FALSE, cacheEntry |-> NoEntry]

\* decryptApiKey has not settled yet
NoResult == [ok |-> FALSE, key |-> NoKey, error |-> ""]

\* no API key has been encrypted yet
NoVault ==
    [phase |-> "idle", apiKey |-> NoKey, password |-> NoPassword, blob |-> NoBlob,
     damage |-> "", tried |-> NoPassword, result |-> NoResult,
     caller |-> Rejected("", NoKey, FALSE), produced |-> << >>]

\* no flashcard generation has started yet
NoGeneration ==
    [pc |-> "idle", path |-> "", text |-> << >>, isOwnCredits |-> FALSE,
     translation |-> "", checked |-> FALSE, outcome |-> "", incremented |-> 0,
     stored |-> FALSE, started |-> 0]

\* the tabs in which the user generates flashcards
Tabs == {1, 2}

\* a new user: the service has counted nothing and no tab is generating
NoQuota ==
    [flashcardCount |-> 0, generated |-> 0, started |-> 0,
     tabs |-> [t \in Tabs |-> [pc |-> "idle", isOwnCredits |-> FALSE]]]

\* the parts of a flashcard that can be regenerated
FlashcardParts == {"definition", "mnemonic", "translation", "examples"}

\* the regenerateContent calls that can be in progress at the same time
RegenerationSlots == {1, 2}

\* a flashcard as showReviewModal stores it: nothing regenerated yet
NewFlashcard == [regenerationCount |-> [part \in FlashcardParts |-> 0]]

\* no regenerateContent call in this slot
NoRegeneration ==
    [pc |-> "idle", part |-> "", isOwnCredits |-> FALSE, flashcard |-> NewFlashcard]

NoRegenerations ==
    [flashcard |-> NewFlashcard, sent |-> 0, clicks |-> 0,
     slots |-> [s \in RegenerationSlots |-> NoRegeneration]]

\* the processTranslationRequest calls that can be in progress at the same time
TranslationSlots == {1, 2}

\* no processTranslationRequest call in this slot
NoTranslationRequest == [pc |-> "idle", text |-> << >>, language |-> ""]

\* the content script has just been loaded: translationRequestInProgress = false
NoTranslationRequests ==
    [translationRequestInProgress |-> FALSE, clicks |-> 0, returned |-> 0, sent |-> 0,
     slots |-> [s \in TranslationSlots |-> NoTranslationRequest]]

\* the toasts shown
MaxToasts == 3

ToastIds == 1 .. MaxToasts

\* the page has shown no toast: currentToast = null, toastRemovalTimeout = null
NoToasts ==
    [shown |-> 0, currentToast |-> 0, toastContainer |-> {},
     toastRemovalTimeout |-> FALSE, durationTimers |-> {},
     keepOpen |-> [t \in ToastIds |-> FALSE], ellipsis |-> [t \in ToastIds |-> FALSE],
     replaced |-> {}, called |-> {}, timedOut |-> {}]

\* no key validation is pending: the validate button is enabled
NoValidation == [pc |-> "idle", provider |-> "", apiKey |-> NoKey]

\* chrome.storage.sync after chrome.runtime.onInstalled has set the defaults.
\* The model and googleModel keys are only read through "|| default" by the
\* gateway; the fields hold what that reads, so that a key set to null and a
\* key holding the default are one value.
DefaultSettings ==
    [isOwnCredits |-> FALSE,
     selectedProvider |-> OPENAI,
     apiKeyValidated |-> FALSE,
     googleApiKeyValidated |-> FALSE,
     encryptedApiKey |-> NoBlob,
     encryptedGoogleApiKey |-> NoBlob,
     installationPassword |-> NoPassword,
     learningGoal |-> "",
     model |-> DEFAULT_REMOTE_MODEL,
     googleModel |-> DEFAULT_GOOGLE_MODEL]

\* the state after chrome.runtime.onInstalled has set the defaults
Init ==
    /\ settings = DefaultSettings
    /\ conversations = [k \in ConversationKeys |-> NoConversation]
    /\ calls = [c \in CallIds |-> IdleCall]
    /\ requestCount = 0
    /\ failure = NoFailure
    /\ adapter = NoAdapter
    /\ translationCache = [k \in CacheKeys |-> NoEntry]
    /\ now = 0
    /\ lookup = NoLookup
    /\ lastPut = [k \in CacheKeys |-> NoPut]
    /\ cacheSteps = 0
    /\ vault = NoVault
    /\ generation = NoGeneration
    /\ quotaRequests = [check |-> 0, increment |-> 0]
    /\ validation = NoValidation
    /\ quota = NoQuota
    /\ regeneration = NoRegenerations
    /\ translationRequests = NoTranslationRequests
    /\ toasts = NoToasts

(***************************************************************************)
(* Settings handlers of the popup.                                         *)
(***************************************************************************)
\* useOwnApiKeyToggle 'change': chrome.storage.sync.set({ isOwnCredits: this.checked })
ToggleOwnCredits ==
    /\ settings' = [settings EXCEPT !.isOwnCredits = ~settings.isOwnCredits]
    /\ UNCHANGED << conversations, calls, requestCount >>
    /\ UNCHANGED contentVars

\* aiProviderSelect 'change': stores the provider, then resets both validated flags
ChangeProvider(p) ==
    /\ p # settings.selectedProvider
    /\ settings' = [settings EXCEPT !.selectedProvider = p,
                                    !.apiKeyValidated = FALSE,
                                    !.googleApiKeyValidated = FALSE]
    /\ UNCHANGED << conversations, calls, requestCount >>
    /\ UNCHANGED contentVars

\* a storage write that leaves the flag of the other provider as it is
ValidatedUpdate_KeepOtherFlag(st, valid, apiKey, password, salt, iv) ==
    IF valid
    THEN IF ProviderOf(st) = GOOGLE
         THEN [st EXCEPT !.isOwnCredits = TRUE,
                         !.installationPassword = password,
                         !.encryptedGoogleApiKey = encryptApiKey(apiKey, password, salt, iv),
                         !.encryptedApiKey = NoBlob,
                         !.googleApiKeyValidated = TRUE]
         ELSE [st EXCEPT !.isOwnCredits = TRUE,
                         !.installationPassword = password,
                         !.encryptedApiKey = encryptApiKey(apiKey, password, salt, iv),
                         !.encryptedGoogleApiKey = NoBlob,
                         !.apiKeyValidated = TRUE]
    ELSE IF ProviderOf(st) = GOOGLE
         THEN [st EXCEPT !.googleApiKeyValidated = FALSE]
         ELSE [st EXCEPT !.apiKeyValidated = FALSE]

\* a storage write that leaves the other provider's blob in place
ValidatedUpdate_KeepOtherBlob(st, valid, apiKey, password, salt, iv) ==
    IF valid
    THEN IF ProviderOf(st) = GOOGLE
         THEN [st EXCEPT !.isOwnCredits = TRUE,
                         !.installationPassword = password,
                         !.encryptedGoogleApiKey = encryptApiKey(apiKey, password, salt, iv),
                         !.googleApiKeyValidated = TRUE,
                         !.apiKeyValidated = FALSE,
                         !.model = ModelOr("", DEFAULT_REMOTE_MODEL)]
         ELSE [st EXCEPT !.isOwnCredits = TRUE,
                         !.installationPassword = password,
                         !.encryptedApiKey = encryptApiKey(apiKey, password, salt, iv),
                         !.apiKeyValidated = TRUE,
                         !.googleApiKeyValidated = FALSE,
                         !.googleModel = ModelOr("", DEFAULT_GOOGLE_MODEL)]
    ELSE IF ProviderOf(st) = GOOGLE
         THEN [st EXCEPT !.googleApiKeyValidated = FALSE]
         ELSE [st EXCEPT !.apiKeyValidated = FALSE]

\* the storage write of handleValidateApiKey
ValidatedUpdate(st, valid, apiKey, password, salt, iv) ==
    IF valid
    THEN IF ProviderOf(st) = GOOGLE
         THEN [st EXCEPT !.isOwnCredits = TRUE,
                         !.installationPassword = password,
                         !.encryptedGoogleApiKey = encryptApiKey(apiKey, password, salt, iv),
                         !.encryptedApiKey = NoBlob,
                         !.googleApiKeyValidated = TRUE,
                         !.apiKeyValidated = FALSE,
                         !.model = ModelOr("", DEFAULT_REMOTE_MODEL)]
         ELSE [st EXCEPT !.isOwnCredits = TRUE,
                         !.installationPassword = password,
                         !.encryptedApiKey = encryptApiKey(apiKey, password, salt, iv),
                         !.encryptedGoogleApiKey = NoBlob,
                         !.apiKeyValidated = TRUE,
                         !.googleApiKeyValidated = FALSE,
                         !.googleModel = ModelOr("", DEFAULT_GOOGLE_MODEL)]
    ELSE IF ProviderOf(st) = GOOGLE
         THEN [st EXCEPT !.googleApiKeyValidated = FALSE]
         ELSE [st EXCEPT !.apiKeyValidated = FALSE]

handleValidateApiKey(valid, apiKey, password, salt, iv) ==
    /\ settings' = ValidatedUpdate(settings, valid, apiKey, password, salt, iv)
    /\ settings' # settings
    /\ UNCHANGED << conversations, calls, requestCount >>
    /\ UNCHANGED contentVars

\* saveLearningGoal
saveLearningGoal(goal) ==
    /\ goal # settings.learningGoal
    /\ settings' = [settings EXCEPT !.learningGoal = goal]
    /\ UNCHANGED << conversations, calls, requestCount >>
    /\ UNCHANGED contentVars

\* The stored blob of the selected provider stops authenticating (corrupted or
\* truncated in the key-value store): the case the catch around decryptApiKey
\* in callAIProviderAPI handles.
StoredKeyCorrupted ==
    /\ \/ /\ settings.encryptedApiKey.present
          /\ settings.encryptedApiKey.encrypted.intact
          /\ settings' = [settings EXCEPT !.encryptedApiKey.encrypted.intact = FALSE]
       \/ /\ settings.encryptedGoogleApiKey.present
          /\ settings.encryptedGoogleApiKey.encrypted.intact
          /\ settings' = [settings EXCEPT !.encryptedGoogleApiKey.encrypted.intact = FALSE]
    /\ UNCHANGED << conversations, calls, requestCount >>
    /\ UNCHANGED contentVars

(***************************************************************************)
(* The gateway: onMessage "callChatGPTAPI" -> callAIProviderAPI.           *)
(***************************************************************************)
ConversationKey(call) == << call.userId, call.type >>

\* sendResponse({ success: false, error: error.message, status, errorData, provider })
Failure(error, status, provider) ==
    [sent |-> TRUE, success |-> FALSE, data |-> "", error |-> error,
     status |-> status, provider |-> provider]

\* sendResponse({ success: true, data: data })
Success(data) ==
    [sent |-> TRUE, success |-> TRUE, data |-> data, error |-> "", status |-> 0, provider |-> ""]

\* each in-flight request carries its own text
SlotMessage(c) == IF c = 1 THEN "m1" ELSE "m2"

\* a slot is free before its first request and after its response has been sent
SlotFree(c) == calls[c].pc \in {"idle", "done"}

\* The invocation has settled: its locals are gone.  What stays observable is
\* the message that asked for it, the response handed to sendResponse, whether
\* the stored key was decrypted and where the request went, if one was sent.
Finished(call, response) ==
    [IdleCall EXCEPT !.pc = "done",
                     !.userId = call.userId,
                     !.type = call.type,
                     !.message = call.message,
                     !.apiKey = call.apiKey,
                     !.decrypted = call.decrypted,
                     !.response = response,
                     !.request = [call.request EXCEPT !.messages = << >>]]

\* The message arrives, chrome.storage.sync.get delivers the settings, and the
\* callback runs up to its first access to the conversation store: either a
\* reject (answered by the .catch of the message handler) or the try block.
callAIProviderAPI(c, userId, type, userMessage, apiKey) ==
    /\ requestCount < MaxRequests
    /\ SlotFree(c)
    /\ \A d \in CallIds : d < c => ~SlotFree(d)
    /\ LET r == GatewayChecks(settings, type, apiKey)
           call == [IdleCall EXCEPT !.userId = userId,
                                    !.type = type,
                                    !.message = userMessage,
                                    !.apiKey = apiKey,
                                    !.provider = ProviderOf(settings),
                                    !.isOwnCredits = settings.isOwnCredits,
                                    !.learningGoal = LearningGoalOf(settings),
                                    !.model = settings.model,
                                    !.googleModel = settings.googleModel,
                                    !.apiKeyToUse = r.apiKeyToUse,
                                    !.decrypted = r.decrypted]
       IN  calls' = [calls EXCEPT ![c] =
                IF r.ok
                THEN [call EXCEPT !.pc = "getConversation"]
                ELSE Finished(call, Failure(r.error, 0, ""))]
    /\ requestCount' = requestCount + 1
    /\ UNCHANGED << settings, conversations >>
    /\ UNCHANGED contentVars

\* a hit that returns the stored record untouched
RewriteSystemMessage_Stale(messages, type, learningGoal) ==
    IF Len(messages) = 0 THEN << SystemMessage(type, learningGoal) >> ELSE messages

\* a hit that starts the conversation over
RewriteSystemMessage_Reset(messages, type, learningGoal) ==
    << SystemMessage(type, learningGoal) >>

\* result[key].messages[0] = { role: 'system', content: systemPrompt }
RewriteSystemMessage(messages, type, learningGoal) ==
    IF Len(messages) = 0
    THEN << SystemMessage(type, learningGoal) >>
    ELSE [messages EXCEPT ![1] = SystemMessage(type, learningGoal)]

\* const newConversation = { messages: [{ role: 'system', content: systemPrompt }] }
NewConversation(type, learningGoal) == << SystemMessage(type, learningGoal) >>

\* getOrCreateConversation returns its conversation object to the try block
Returned(call, messages) == [call EXCEPT !.pc = "sendRequest", !.conversation = messages]

\* getOrCreateConversation, the chrome.storage.sync.get(key) step
getOrCreateConversation(c) ==
    /\ calls[c].pc = "getConversation"
    /\ LET call == calls[c]
           stored == conversations[ConversationKey(call)]
       IN  calls' = [calls EXCEPT ![c] =
                IF stored.present
                THEN Returned(call, RewriteSystemMessage(stored.messages, call.type,
                                                         call.learningGoal))
                ELSE [call EXCEPT !.pc = "createConversation",
                                  !.conversation = NewConversation(call.type,
                                                                   call.learningGoal)]]
    /\ UNCHANGED << settings, conversations, requestCount >>
    /\ UNCHANGED contentVars

\* getOrCreateConversation, the chrome.storage.sync.set({ [key]: newConversation }) step
createConversation(c) ==
    /\ calls[c].pc = "createConversation"
    /\ LET call == calls[c]
       IN  /\ conversations' = [conversations EXCEPT ![ConversationKey(call)] =
                    [present |-> TRUE, messages |-> call.conversation]]
           /\ calls' = [calls EXCEPT ![c] = Returned(call, call.conversation)]
    /\ UNCHANGED << settings, requestCount >>
    /\ UNCHANGED contentVars

\* a try block without the Google branch
RequestSent_OpenAIOnly(call) ==
    IF call.provider = OPENAI
    THEN LET local == MessagesAfterBuild(call, call.conversation)
         IN  [call EXCEPT !.pc = "fetch",
                          !.conversation = local,
                          !.request = BuildRequest(call, local)]
    ELSE [call EXCEPT !.pc = "stalled"]

\* the call once its request has been built and handed to fetch
RequestSent(call) ==
    LET local == MessagesAfterBuild(call, call.conversation)
    IN  [call EXCEPT !.pc = "fetch",
                     !.conversation = local,
                     !.request = BuildRequest(call, local)]

\* the try block from the return of getOrCreateConversation to await fetch(...)
sendRequest(c) ==
    /\ calls[c].pc = "sendRequest"
    /\ calls' = [calls EXCEPT ![c] = RequestSent(calls[c])]
    /\ UNCHANGED << settings, conversations, requestCount >>
    /\ UNCHANGED contentVars

\* fetch rejects, the status is not ok, or the reply has no usable content:
\* the catch of the try block rejects with enhancedError
ErrorOf(outcome) ==
    CASE outcome.kind = "transport" -> "Failed to fetch"
      [] outcome.kind = "http"      -> "HTTP error"
      [] OTHER                      -> "Invalid API response"

providerFails(c, outcome) ==
    /\ calls[c].pc = "fetch"
    /\ outcome.kind # "ok"
    /\ calls' = [calls EXCEPT ![c] =
            Finished(calls[c], Failure(ErrorOf(outcome), outcome.status, calls[c].provider))]
    /\ UNCHANGED << settings, conversations, requestCount >>
    /\ UNCHANGED contentVars

\* resolve(JSON.parse(content)); a SyntaxError lands in the catch of the try block
ResponseToReply(call, replyText) ==
    IF JsonParses(replyText)
    THEN Success(replyText)
    ELSE Failure("SyntaxError", 0, call.provider)

\* a reply handler that reads the record again and appends the exchange to it
providerAnswers_AppendToStored(c, replyText) ==
    /\ calls[c].pc = "fetch"
    /\ LET call == calls[c]
           stored == conversations[ConversationKey(call)].messages
       IN  /\ conversations' = [conversations EXCEPT ![ConversationKey(call)] =
                    [present |-> TRUE,
                     messages |-> stored \o << UserMessage(call.message),
                                               AssistantMessage(replyText) >>]]
           /\ calls' = [calls EXCEPT ![c] = Finished(call, ResponseToReply(call, replyText))]
    /\ UNCHANGED << settings, requestCount >>
    /\ UNCHANGED contentVars

\* a well-formed reply: push, trim, chrome.storage.sync.set, then resolve(JSON.parse(...))
providerAnswers(c, replyText) ==
    /\ calls[c].pc = "fetch"
    /\ LET call == calls[c]
           written == MessagesAfterReply(call, replyText)
       IN  /\ conversations' = [conversations EXCEPT ![ConversationKey(call)] =
                    [present |-> TRUE, messages |-> written]]
           /\ calls' = [calls EXCEPT ![c] = Finished(call, ResponseToReply(call, replyText))]
    /\ UNCHANGED << settings, requestCount >>
    /\ UNCHANGED contentVars

(***************************************************************************)
(* A failed provider exchange: the error the try block throws, the response *)
(* of the message handler, and the toast the content script shows for it.   *)
(***************************************************************************)
MaxPhrases == 2

HttpStatuses == {400, 401, 403, 404, 429, 500, 503}

ErrorMessages == { m \in SUBSET PayloadPhrases : Cardinality(m) <= MaxPhrases }

\* await response.json().catch(() => ({}))
ErrorPayloads ==
    {NoErrorData}
      \cup [hasError : {TRUE}, type : {"invalid_request_error", "api_error"},
            message : ErrorMessages]

\* the messages of the TypeError a rejected fetch carries (Chrome, Firefox)
TransportMessages ==
    { {"Failed to fetch"}, {"NetworkError when attempting to fetch resource."} }

\* if (!response.ok) { ... throw error }
HttpError(status, errorData) ==
    LET text == MessageOr(errorData, {statusText(status)})
    IN  [message |-> {"HTTP error! status"} \cup text,
         status |-> status,
         hasErrorData |-> TRUE,
         errorData |-> errorData,
         isUnsupportedModel |-> isUnsupportedModelError(errorData, status)
                                  /\ ~isNetworkError(text, status)]

\* await fetch(...) rejects
TransportError(message) ==
    [message |-> message, status |-> 0, hasErrorData |-> FALSE,
     errorData |-> NoErrorData, isUnsupportedModel |-> FALSE]

\* catch (error) { reject(enhancedError) }, then the .catch of the message handler
ErrorResponse(error, provider) ==
    [success |-> FALSE,
     error |-> error.message,
     status |-> error.status,
     hasErrorData |-> error.hasErrorData,
     errorData |-> error.errorData,
     isUnsupportedModel |-> error.isUnsupportedModel,
     provider |-> provider]

\* a 429 case that tells every quota problem as a plain rate limit
RateLimitMessage_NoQuota(errorMessage) ==
    IF includes(errorMessage, "slow down")
    THEN "apiError503SlowDown"
    ELSE "apiError429RateLimit"

\* case 429 of getApiErrorMessage
RateLimitMessage(errorMessage) ==
    IF \/ includes(errorMessage, "quota") \/ includes(errorMessage, "credits")
       \/ includes(errorMessage, "billing") \/ includes(errorMessage, "exceeded")
    THEN "apiError429QuotaExceeded"
    ELSE IF includes(errorMessage, "slow down")
    THEN "apiError503SlowDown"
    ELSE "apiError429RateLimit"

\* getApiErrorMessage(error, provider)
getApiErrorMessage(error, provider) ==
    LET errorMessage == toLowerCase(MessageOr(error.errorData, error.message))
    IN  IF \/ includes(error.message, "Failed to fetch")
           \/ includes(error.message, "Network request failed")
           \/ includes(error.message, "network")
           \/ includes(error.message, "connection")
        THEN "networkError"
        ELSE IF includes(error.message, "JSON")
        THEN "jsonParseError"
        ELSE CASE error.status = 400 ->
                    IF provider = GOOGLE /\ includes(errorMessage, "free tier is not available")
                    THEN "apiError400FailedPrecondition"
                    ELSE "apiError400InvalidRequest"
               [] error.status = 401 ->
                    IF includes(errorMessage, "incorrect") \/ includes(errorMessage, "invalid")
                    THEN "apiError401IncorrectKey"
                    ELSE IF includes(errorMessage, "organization")
                    THEN "apiError401NotMember"
                    ELSE "apiError401InvalidAuth"
               [] error.status = 403 ->
                    IF \/ includes(errorMessage, "country") \/ includes(errorMessage, "region")
                       \/ includes(errorMessage, "territory")
                       \/ includes(errorMessage, "not supported")
                    THEN "apiError403CountryNotSupported"
                    ELSE "apiError403PermissionDenied"
               [] error.status = 404 -> "apiError404NotFound"
               [] error.status = 429 -> RateLimitMessage(errorMessage)
               [] error.status = 500 -> "apiError500ServerError"
               [] error.status = 503 ->
                    IF includes(errorMessage, "overloaded") \/ includes(errorMessage, "capacity")
                    THEN "apiError503ServiceUnavailable"
                    ELSE IF includes(errorMessage, "slow down")
                    THEN "apiError503SlowDown"
                    ELSE "apiError503ServiceUnavailable"
               [] error.status = 504 -> "apiError504Timeout"
               [] OTHER -> "apiErrorGeneric"

\* an error branch that never consults getApiErrorMessage
ErrorToast_NoStatusBranch(response) ==
    IF response.isUnsupportedModel
    THEN "unsupportedModelError"
    ELSE "errorCreatingFlashcard"

\* the error branch of the response callback
ErrorToast(response) ==
    LET provider == IF response.provider = "" THEN OPENAI ELSE response.provider
    IN  IF response.isUnsupportedModel
        THEN "unsupportedModelError"
        ELSE IF response.status # 0
        THEN getApiErrorMessage(
                 [status |-> response.status,
                  message |-> response.error,
                  errorData |-> IF response.hasErrorData
                                THEN response.errorData
                                ELSE [hasError |-> TRUE, type |-> "",
                                      message |-> response.error]],
                 provider)
        ELSE "errorCreatingFlashcard"

\* the provider exchange of a generate call fails over HTTP and the background
\* script answers the content script
httpErrorResponse(provider, status, errorData) ==
    /\ failure.phase = "idle"
    /\ failure' = [phase |-> "responded", kind |-> "http",
                   response |-> ErrorResponse(HttpError(status, errorData), provider),
                   toast |-> ""]
    /\ UNCHANGED << settings, conversations, calls, requestCount >>
    /\ UNCHANGED << adapter, cacheVars, vault, generateVars, pageVars >>

\* fetch itself rejects and the background script answers the content script
transportErrorResponse(provider, message) ==
    /\ failure.phase = "idle"
    /\ failure' = [phase |-> "responded", kind |-> "transport",
                   response |-> ErrorResponse(TransportError(message), provider),
                   toast |-> ""]
    /\ UNCHANGED << settings, conversations, calls, requestCount >>
    /\ UNCHANGED << adapter, cacheVars, vault, generateVars, pageVars >>

\* the response callback of proceedWithFlashcardGeneration, error branch
showApiError ==
    /\ failure.phase = "responded"
    /\ failure' = [failure EXCEPT !.phase = "reported",
                                  !.toast = ErrorToast(failure.response)]
    /\ UNCHANGED << settings, conversations, calls, requestCount >>
    /\ UNCHANGED << adapter, cacheVars, vault, generateVars, pageVars >>

\* the popup's handlers
SettingsStep ==
    \/ ToggleOwnCredits
    \/ \E p \in AI_PROVIDERS : ChangeProvider(p)
    \/ \E valid \in BOOLEAN, k \in StoredKeys, pw \in Passwords,
          salt \in PageSalts, iv \in PageIVs :
             handleValidateApiKey(valid, k, pw, salt, iv)
    \/ \E g \in LearningGoals : saveLearningGoal(g)
    \/ StoredKeyCorrupted

\* the gateway, for requests drawn from the given slots, purpose types and
\* explicit credentials
GatewayStep(ids, types, keys) ==
    \/ \E c \in ids, u \in UserIds, t \in types, k \in keys :
          callAIProviderAPI(c, u, t, SlotMessage(c), k)
    \/ \E c \in ids : sendRequest(c)
    \/ \E c \in ids : getOrCreateConversation(c)
    \/ \E c \in ids : createConversation(c)
    \/ \E c \in ids, o \in ProviderOutcomes : providerFails(c, o)
    \/ \E c \in ids, r \in ReplyTexts : providerAnswers(c, r)

\* the continuations of a call in flight: storage callbacks and the settling
\* of the fetch promise
CallContinues(c) ==
    \/ sendRequest(c)
    \/ getOrCreateConversation(c)
    \/ createConversation(c)
    \/ \E o \in ProviderOutcomes : providerFails(c, o)
    \/ \E r \in ReplyTexts : providerAnswers(c, r)

\* Overlapping requests for one conversation, under every setting.
Next == SettingsStep \/ GatewayStep(CallIds, ConcurrentTypes, {NoKey})

Spec == Init /\ [][Next]_vars

\* One request at a time, with every purpose type and credential argument.
NextSequential == SettingsStep \/ GatewayStep({1}, RequestTypes, ExplicitKeys)

SpecSequential == Init /\ [][NextSequential]_vars

\* The storage callbacks are delivered and the network exchange settles.
FairSpecSequential ==
    SpecSequential /\ WF_vars(CallContinues(1))

(***************************************************************************)
(* The endpoint, model and credential of a request, under every mode,      *)
(* provider and model choice.                                              *)
(***************************************************************************)
\* the options of the model dropdown: fetchModels keeps the gpt- names for
\* OpenAI and the gemini names for Google
ModelChoices(provider) ==
    IF provider = GOOGLE THEN {"models/gemini-pro"} ELSE {"gpt-4o-mini"}

\* modelChoice 'change': chrome.storage.sync.set({ [storageKey]: this.value })
modelChoiceChanged(m) ==
    /\ settings' = IF ProviderOf(settings) = GOOGLE
                   THEN [settings EXCEPT !.googleModel = m]
                   ELSE [settings EXCEPT !.model = m]
    /\ settings' # settings
    /\ UNCHANGED << conversations, calls, requestCount >>
    /\ UNCHANGED contentVars

NextProxy ==
    \/ ToggleOwnCredits
    \/ \E p \in AI_PROVIDERS : ChangeProvider(p)
    \/ \E valid \in BOOLEAN, k \in StoredKeys, pw \in Passwords,
          salt \in PageSalts, iv \in PageIVs :
             handleValidateApiKey(valid, k, pw, salt, iv)
    \/ \E m \in ModelChoices(ProviderOf(settings)) : modelChoiceChanged(m)
    \/ GatewayStep({1}, {"flashcard"}, ExplicitKeys)

SpecProxy == Init /\ [][NextProxy]_vars

(***************************************************************************)
(* The response schema each adapter asks the provider for.                 *)
(***************************************************************************)
\* the words a user message is made of
UserWords == {"word", "mnemonic", "Mnemonic", "definition"}

UserTexts == SUBSET UserWords

Range(seq) == { seq[i] : i \in 1..Len(seq) }

\* properties: { <name>: { type, description } }, required: [...]
ObjectSchema(envelope, objectType, primitive, properties, required) ==
    [envelope |-> envelope,
     type |-> objectType,
     properties |-> { << name, primitive >> : name \in Range(properties) },
     required |-> required]

\* a flashcard schema that asks for the mnemonic every time
OpenAIFlashcardSchema_AlwaysMnemonic(userMessage) ==
    ObjectSchema("json_schema", "object", "string",
        << "definition", "translation", "example_1", "example_2", "example_3", "mnemonic" >>,
        << "definition", "translation", "example_1", "example_2", "example_3", "mnemonic" >>)

\* OpenAI, type flashcard
OpenAIFlashcardSchema(userMessage) ==
    LET includeMnemonic == includes(userMessage, "mnemonic")
    IN  ObjectSchema("json_schema", "object", "string",
            << "definition", "translation", "example_1", "example_2", "example_3" >>
              \o (IF includeMnemonic THEN << "mnemonic" >> ELSE << >>),
            << "definition", "translation", "example_1", "example_2", "example_3" >>
              \o (IF includeMnemonic THEN << "mnemonic" >> ELSE << >>))

\* let responseFormat; if (type === ...) ... else ...
responseFormat(type, userMessage) ==
    CASE type = "flashcard" -> OpenAIFlashcardSchema(userMessage)
      [] type = "examples" ->
             ObjectSchema("json_schema", "object", "string",
                 << "example_1", "example_2", "example_3" >>,
                 << "example_1", "example_2", "example_3" >>)
      [] type = "translation_popup" ->
             ObjectSchema("json_schema", "object", "string",
                 << "translation" >>, << "translation" >>)
      [] OTHER ->
             ObjectSchema("json_schema", "object", "string", << type >>, << type >>)

\* a Google schema without the branch for the translation popup
googleResponseSchema_NoPopupBranch(type, userMessage) ==
    CASE type = "flashcard" ->
             LET includeMnemonic == includes(userMessage, "mnemonic")
             IN  ObjectSchema("responseSchema", "OBJECT", "STRING",
                     << "definition", "translation", "example_1", "example_2", "example_3" >>
                       \o (IF includeMnemonic THEN << "mnemonic" >> ELSE << >>),
                     << "definition", "translation", "example_1", "example_2", "example_3" >>
                       \o (IF includeMnemonic THEN << "mnemonic" >> ELSE << >>))
      [] type = "examples" ->
             ObjectSchema("responseSchema", "OBJECT", "STRING",
                 << "example_1", "example_2", "example_3" >>,
                 << "example_1", "example_2", "example_3" >>)
      [] OTHER ->
             ObjectSchema("responseSchema", "OBJECT", "STRING", << type >>, << type >>)

\* let googleResponseSchema; if (type === ...) ... else ...
googleResponseSchema(type, userMessage) ==
    CASE type = "flashcard" ->
             LET includeMnemonic == includes(userMessage, "mnemonic")
             IN  ObjectSchema("responseSchema", "OBJECT", "STRING",
                     << "definition", "translation", "example_1", "example_2", "example_3" >>
                       \o (IF includeMnemonic THEN << "mnemonic" >> ELSE << >>),
                     << "definition", "translation", "example_1", "example_2", "example_3" >>
                       \o (IF includeMnemonic THEN << "mnemonic" >> ELSE << >>))
      [] type = "examples" ->
             ObjectSchema("responseSchema", "OBJECT", "STRING",
                 << "example_1", "example_2", "example_3" >>,
                 << "example_1", "example_2", "example_3" >>)
      [] type = "translation_popup" ->
             ObjectSchema("responseSchema", "OBJECT", "STRING",
                 << "translation" >>, << "translation" >>)
      [] OTHER ->
             ObjectSchema("responseSchema", "OBJECT", "STRING", << type >>, << type >>)

\* a generate call with a valid type reaches the try block
prepareRequest(type, userMessage) ==
    /\ adapter.phase = "idle"
    /\ adapter' = [NoAdapter EXCEPT !.phase = "prepared",
                                    !.type = type,
                                    !.userMessage = userMessage]
    /\ UNCHANGED << settings, conversations, calls, requestCount >>
    /\ UNCHANGED << failure, cacheVars, vault, generateVars, pageVars >>

\* the OpenAI branch builds response_format for the call
buildOpenAIRequest ==
    /\ adapter.phase = "prepared"
    /\ adapter.responseFormat = NoSchema
    /\ adapter' = [adapter EXCEPT
                      !.responseFormat = responseFormat(adapter.type, adapter.userMessage)]
    /\ UNCHANGED << settings, conversations, calls, requestCount >>
    /\ UNCHANGED << failure, cacheVars, vault, generateVars, pageVars >>

\* the Google branch builds generationConfig.responseSchema for the same call
buildGoogleRequest ==
    /\ adapter.phase = "prepared"
    /\ adapter.googleResponseSchema = NoSchema
    /\ adapter' = [adapter EXCEPT
                      !.googleResponseSchema =
                          googleResponseSchema(adapter.type, adapter.userMessage)]
    /\ UNCHANGED << settings, conversations, calls, requestCount >>
    /\ UNCHANGED << failure, cacheVars, vault, generateVars, pageVars >>

\* One call's arguments under both provider settings.
NextAdapter ==
    \/ \E t \in CONVERSATION_TYPES, m \in UserTexts : prepareRequest(t, m)
    \/ buildOpenAIRequest
    \/ buildGoogleRequest

SpecAdapter == Init /\ [][NextAdapter]_vars

\* Failed provider exchanges and what the user is told about them.
NextClassify ==
    \/ \E p \in AI_PROVIDERS, st \in HttpStatuses, d \in ErrorPayloads :
          httpErrorResponse(p, st, d)
    \/ \E p \in AI_PROVIDERS, m \in TransportMessages : transportErrorResponse(p, m)
    \/ showApiError

SpecClassify == Init /\ [][NextClassify]_vars

(***************************************************************************)
(* The translation cache of the content script.                            *)
(***************************************************************************)
MaxCacheSteps == 4

TWENTY_FOUR_HOURS == 24 * 60 * 60 * 1000

\* how far Date.now() moves between two cache operations
ClockSteps == {1, TWENTY_FOUR_HOURS - 1}

\* a read that removes the entry it finds expired
getCachedTranslation_DeleteExpired(text, language) ==
    LET cacheKey == createTranslationCacheKey(text, language)
        cacheEntry == translationCache[cacheKey]
        expired == cacheEntry.present /\ (now - cacheEntry.timestamp) > TWENTY_FOUR_HOURS
        hit == cacheEntry.present /\ ~expired
    IN  /\ lookup' = [done |-> TRUE, text |-> text, language |-> language,
                      hit |-> hit,
                      translation |-> IF hit THEN cacheEntry.translation ELSE "",
                      at |-> now]
        /\ translationCache' = IF expired
                               THEN [translationCache EXCEPT ![cacheKey] = NoEntry]
                               ELSE translationCache
        /\ UNCHANGED << now, lastPut, cacheSteps >>
        /\ UNCHANGED << gatewayVars, failure, adapter, vault, generateVars, pageVars >>

\* a write that keeps an entry that has not expired yet
setCachedTranslation_KeepFresh(text, language, translation) ==
    LET cacheKey == createTranslationCacheKey(text, language)
        cacheEntry == [present |-> TRUE,
                       translation |-> translation,
                       timestamp |-> now,
                       sourceText |-> text,
                       targetLanguage |-> language]
        stored == translationCache[cacheKey]
        fresh == stored.present /\ (now - stored.timestamp) <= TWENTY_FOUR_HOURS
    IN  /\ cacheSteps < MaxCacheSteps
        /\ translationCache' = IF fresh
                               THEN translationCache
                               ELSE [translationCache EXCEPT ![cacheKey] = cacheEntry]
        /\ lastPut' = [lastPut EXCEPT ![cacheKey] = [done |-> TRUE, cacheEntry |-> cacheEntry]]
        /\ cacheSteps' = cacheSteps + 1
        /\ UNCHANGED << now, lookup >>
        /\ UNCHANGED << gatewayVars, failure, adapter, vault, generateVars, pageVars >>

\* a read that answers only for the text the entry was written for
getCachedTranslation_CompareSource(text, language) ==
    LET cacheKey == createTranslationCacheKey(text, language)
        cacheEntry == translationCache[cacheKey]
        hit == /\ cacheEntry.present
               /\ (now - cacheEntry.timestamp) <= TWENTY_FOUR_HOURS
               /\ cacheEntry.sourceText = text
    IN  /\ lookup' = [done |-> TRUE, text |-> text, language |-> language,
                      hit |-> hit,
                      translation |-> IF hit THEN cacheEntry.translation ELSE "",
                      at |-> now]
        /\ UNCHANGED << translationCache, now, lastPut, cacheSteps >>
        /\ UNCHANGED << gatewayVars, failure, adapter, vault, generateVars, pageVars >>

\* an expiry test that also rejects an entry aged exactly 24 hours
isTranslationExpired_AtLimit(timestamp) == (now - timestamp) >= TWENTY_FOUR_HOURS

\* isTranslationExpired(timestamp)
isTranslationExpired(timestamp) == (now - timestamp) > TWENTY_FOUR_HOURS

\* getCachedTranslation(text, language): the storage callback resolves with
\* the translation or with null
getCachedTranslation(text, language) ==
    LET cacheKey == createTranslationCacheKey(text, language)
        cacheEntry == translationCache[cacheKey]
        hit == cacheEntry.present /\ ~isTranslationExpired(cacheEntry.timestamp)
    IN  /\ lookup' = [done |-> TRUE, text |-> text, language |-> language,
                      hit |-> hit,
                      translation |-> IF hit THEN cacheEntry.translation ELSE "",
                      at |-> now]
        /\ UNCHANGED << translationCache, now, lastPut, cacheSteps >>
        /\ UNCHANGED << gatewayVars, failure, adapter, vault, generateVars, pageVars >>

\* setCachedTranslation(text, language, translation)
setCachedTranslation(text, language, translation) ==
    LET cacheKey == createTranslationCacheKey(text, language)
        cacheEntry == [present |-> TRUE,
                       translation |-> translation,
                       timestamp |-> now,
                       sourceText |-> text,
                       targetLanguage |-> language]
    IN  /\ cacheSteps < MaxCacheSteps
        /\ translationCache' = [translationCache EXCEPT ![cacheKey] = cacheEntry]
        /\ lastPut' = [lastPut EXCEPT ![cacheKey] = [done |-> TRUE, cacheEntry |-> cacheEntry]]
        /\ cacheSteps' = cacheSteps + 1
        /\ UNCHANGED << now, lookup >>
        /\ UNCHANGED << gatewayVars, failure, adapter, vault, generateVars, pageVars >>

\* time passes between two operations of the page
clockAdvances(d) ==
    /\ cacheSteps < MaxCacheSteps
    /\ now' = now + d
    /\ cacheSteps' = cacheSteps + 1
    /\ UNCHANGED << translationCache, lookup, lastPut >>
    /\ UNCHANGED << gatewayVars, failure, adapter, vault, generateVars, pageVars >>

NextCache ==
    \/ \E t \in CacheTexts, l \in Languages : getCachedTranslation(t, l)
    \/ \E t \in CacheTexts, l \in Languages, tr \in Translations :
          setCachedTranslation(t, l, tr)
    \/ \E d \in ClockSteps : clockAdvances(d)

SpecCache == Init /\ [][NextCache]_vars

(***************************************************************************)
(* The credential vault: encryptApiKey and decryptApiKey on their own.     *)
(***************************************************************************)
MaxEncryptions == 2

\* API keys as UTF-16 code units: "k", "k1", "é", "€", U+1F600 as a surrogate
\* pair, an unpaired high surrogate, an unpaired low surrogate before "k",
\* U+FEFF before "k", "k" before U+FEFF, and U+FFFD
VaultSecrets ==
    { << 107 >>, << 107, 49 >>, << 233 >>, << 8364 >>, << 55357, 56832 >>,
      << 55296 >>, << 56320, 107 >>, << 65279, 107 >>, << 107, 65279 >>,
      << 65533 >> }

\* "p1", "p2": generateInstallationPassword gives hexadecimal digits
VaultPasswords == { << 112, 49 >>, << 112, 50 >> }

\* what can happen to a stored blob: a ciphertext byte altered, the ciphertext
\* cut short, the salt lost, the IV lost
DamageKinds == {"ciphertext", "truncated", "salt", "iv"}

Damaged(blob, kind) ==
    CASE kind = "ciphertext" -> [blob EXCEPT !.encrypted.intact = FALSE]
      [] kind = "truncated"  ->
            [blob EXCEPT !.encrypted.intact = FALSE,
                         !.encrypted.data = SubSeq(blob.encrypted.data, 1,
                                                   Len(blob.encrypted.data) - 1)]
      [] kind = "salt"       -> [blob EXCEPT !.salt = 0]
      [] kind = "iv"         -> [blob EXCEPT !.iv = 0]

\* crypto.getRandomValues for the n-th value drawn: a value not drawn before
getRandomValues(n) == n

\* the settings of own-credits mode with this blob and password stored
StoredCredential(blob, password) ==
    [DefaultSettings EXCEPT !.isOwnCredits = TRUE,
                            !.apiKeyValidated = TRUE,
                            !.encryptedApiKey = blob,
                            !.installationPassword = password]

\* encryptApiKey(apiKey, password) is called and resolves
vaultEncrypts(apiKey, password) ==
    LET drawn == 2 * Len(vault.produced)
        blob == encryptApiKey(apiKey, password,
                              getRandomValues(drawn + 1), getRandomValues(drawn + 2))
    IN  /\ vault.phase \in {"idle", "decrypted"}
        /\ Len(vault.produced) < MaxEncryptions
        /\ vault' = [NoVault EXCEPT
                        !.phase = "encrypted", !.apiKey = apiKey,
                        !.password = password, !.blob = blob,
                        !.produced = Append(vault.produced,
                                            [apiKey |-> apiKey, password |-> password,
                                             blob |-> blob])]
        /\ UNCHANGED << gatewayVars, failure, adapter, cacheVars, generateVars, pageVars >>

\* the blob is damaged while it is stored
blobDamaged(kind) ==
    /\ vault.phase = "encrypted"
    /\ vault.damage = ""
    /\ vault' = [vault EXCEPT !.damage = kind, !.blob = Damaged(vault.blob, kind)]
    /\ UNCHANGED << gatewayVars, failure, adapter, cacheVars, generateVars, pageVars >>

\* decryptApiKey(blob, password) is called and settles; callAIProviderAPI
\* makes of it what it makes of the stored blob
vaultDecrypts(password) ==
    /\ vault.phase = "encrypted"
    /\ vault' = [vault EXCEPT
                    !.phase = "decrypted", !.tried = password,
                    !.result = decryptApiKey(vault.blob, password),
                    !.caller = ResolveApiKey(StoredCredential(vault.blob, password),
                                             "flashcard", NoKey)]
    /\ UNCHANGED << gatewayVars, failure, adapter, cacheVars, generateVars, pageVars >>

NextVault ==
    \/ \E k \in VaultSecrets, pw \in VaultPasswords : vaultEncrypts(k, pw)
    \/ \E kind \in DamageKinds : blobDamaged(kind)
    \/ \E pw \in VaultPasswords : vaultDecrypts(pw)

SpecVault == Init /\ [][NextVault]_vars

\* The handlers of the settings page, with two keys, two installation
\* passwords and two draws of the salt.
SettingsKeys == { << 107, 49 >>, << 107, 50 >> }

SettingsSalts == {1, 3}

NextCredentials ==
    \/ ToggleOwnCredits
    \/ \E p \in AI_PROVIDERS : ChangeProvider(p)
    \/ \E valid \in BOOLEAN, k \in SettingsKeys, pw \in VaultPasswords,
          salt \in SettingsSalts, iv \in PageIVs :
             handleValidateApiKey(valid, k, pw, salt, iv)
    \/ \E g \in LearningGoals : saveLearningGoal(g)

SpecCredentials == Init /\ [][NextCredentials]_vars

(***************************************************************************)
(* The settings page with the key validation as the two steps it is: the   *)
(* click sends the key to the background script, the answer writes the     *)
(* storage.  chrome.runtime.onInstalled fires again on every update.       *)
(***************************************************************************)
\* chrome.runtime.onInstalled: chrome.storage.sync.set of the default settings
onInstalled ==
    /\ settings' = [settings EXCEPT !.model = DEFAULT_REMOTE_MODEL,
                                    !.googleModel = DEFAULT_GOOGLE_MODEL,
                                    !.isOwnCredits = FALSE,
                                    !.apiKeyValidated = FALSE,
                                    !.googleApiKeyValidated = FALSE,
                                    !.selectedProvider = OPENAI]
    /\ settings' # settings
    /\ UNCHANGED << conversations, calls, requestCount >>
    /\ UNCHANGED contentVars

\* handleValidateApiKey up to chrome.runtime.sendMessage: the provider is the
\* value of the dropdown, which shows the stored provider or the one it
\* showed before an update reset the stored one; the button is disabled
validateClicked(selectedProvider, apiKey) ==
    /\ validation.pc = "idle"
    /\ apiKey # NoKey
    /\ validation' = [pc |-> "sent", provider |-> selectedProvider, apiKey |-> apiKey]
    /\ UNCHANGED << gatewayVars, failure, adapter, cacheVars, vault, generateVars, quota, regeneration, translationRequests, toasts >>

\* the storage write of the sendMessage callback for the provider read at the click
ValidatedUpdateFor(st, selectedProvider, valid, apiKey, password, salt, iv) ==
    [ValidatedUpdate([st EXCEPT !.selectedProvider = selectedProvider],
                     valid, apiKey, password, salt, iv)
        EXCEPT !.selectedProvider = st.selectedProvider]

\* the sendMessage callback of handleValidateApiKey: chrome.runtime.lastError
\* writes nothing, a valid key is encrypted and stored, an invalid one
\* clears the flag of its provider
validationAnswered(answer, password, salt, iv) ==
    /\ validation.pc = "sent"
    /\ settings' = IF answer = "lastError"
                   THEN settings
                   ELSE ValidatedUpdateFor(settings, validation.provider, answer = "valid",
                                           validation.apiKey, password, salt, iv)
    /\ validation' = NoValidation
    /\ UNCHANGED << conversations, calls, requestCount >>
    /\ UNCHANGED << failure, adapter, cacheVars, vault, generateVars, quota, regeneration, translationRequests, toasts >>

ValidationAnswers == {"valid", "invalid", "lastError"}

NextSettings ==
    \/ onInstalled
    \/ ToggleOwnCredits
    \/ \E p \in AI_PROVIDERS : ChangeProvider(p)
    \/ \E m \in ModelChoices(ProviderOf(settings)) : modelChoiceChanged(m)
    \/ \E p \in AI_PROVIDERS, k \in SettingsKeys : validateClicked(p, k)
    \/ \E a \in ValidationAnswers, pw \in VaultPasswords, salt \in SettingsSalts, iv \in PageIVs :
          validationAnswered(a, pw, salt, iv)

SpecSettings == Init /\ [][NextSettings]_vars

(***************************************************************************)
(* Flashcard generation in the content script and the quota service.       *)
(***************************************************************************)
MaxGenerations == 2

\* settings.choice
Choices == {"remote", "local"}

\* the text the flashcards are generated for: "Aa"
SelectedTexts == { << 65, 97 >> }

\* the translation the popup has cached, and the one a flashcard reply holds
PopupTranslations == {"tr1"}
FlashcardTranslations == {"tr2"}

\* how the callChatGPTAPI message ends for the content script: a response
\* with success, a response without, or chrome.runtime.lastError
ProviderResults == {"success", "failure", "lastError"}

\* a generation that asks the quota service whatever the mode
UsesQuotaService_Always(isOwnCredits) == TRUE

\* if (!settings.isOwnCredits): the free-trial branch and the increment
UsesQuotaService(isOwnCredits) == ~isOwnCredits

\* the outcome of getCachedTranslation(text, language) at this moment
CachedTranslation(text, language) ==
    LET cacheEntry == translationCache[createTranslationCacheKey(text, language)]
    IN  IF cacheEntry.present /\ ~isTranslationExpired(cacheEntry.timestamp)
        THEN [hit |-> TRUE, translation |-> cacheEntry.translation]
        ELSE [hit |-> FALSE, translation |-> ""]

\* the first part of generateFlashcard and generateFlashcardWithCachedTranslation:
\* the settings are read and the mode decides who is asked
Started(path, text, translation, choice, user) ==
    LET g == [NoGeneration EXCEPT !.path = path, !.text = text,
                                  !.translation = translation,
                                  !.isOwnCredits = settings.isOwnCredits,
                                  !.started = generation.started + 1]
    IN  IF choice # "remote"
        THEN [g EXCEPT !.pc = "done"]
        ELSE IF ~UsesQuotaService(g.isOwnCredits)
             THEN [g EXCEPT !.pc = "isApiKeyValid"]
             ELSE IF ~user
                  THEN [g EXCEPT !.pc = "done"]
                  ELSE [g EXCEPT !.pc = "canGenerate", !.checked = TRUE]

\* the requests to the quota service after one more to an endpoint
OneMore(endpoint) == [quotaRequests EXCEPT ![endpoint] = @ + 1]

\* generateFlashcard(selectedText)
generateFlashcard(text, choice, user) ==
    /\ generation.pc \in {"idle", "done"}
    /\ generation.started < MaxGenerations
    /\ generation' = Started("full", text, "", choice, user)
    /\ quotaRequests' = IF generation'.checked THEN OneMore("check") ELSE quotaRequests
    /\ UNCHANGED << gatewayVars, failure, adapter, cacheVars, vault, pageVars >>

\* generateFlashcardWithCachedTranslation(text, translation), from the popup
\* that found the translation in the cache
generateFlashcardWithCachedTranslation(text, language, choice, user) ==
    /\ generation.pc \in {"idle", "done"}
    /\ generation.started < MaxGenerations
    /\ CachedTranslation(text, language).hit
    /\ generation' = Started("cached", text,
                             CachedTranslation(text, language).translation,
                             choice, user)
    /\ quotaRequests' = IF generation'.checked THEN OneMore("check") ELSE quotaRequests
    /\ UNCHANGED << gatewayVars, failure, adapter, cacheVars, vault, pageVars >>

\* isApiKeyValid() resolves
isApiKeyValid ==
    /\ generation.pc = "isApiKeyValid"
    /\ LET isValid ==
              \/ ~settings.isOwnCredits
              \/ IF ProviderOf(settings) = GOOGLE
                 THEN settings.googleApiKeyValidated
                 ELSE settings.apiKeyValidated
       IN  generation' = [generation EXCEPT !.pc = IF isValid THEN "proceed" ELSE "done"]
    /\ UNCHANGED << gatewayVars, failure, adapter, cacheVars, vault, quotaRequests, pageVars >>

\* checkCanGenerateFlashcard resolves with data.canGenerate
checkCanGenerateFlashcard(canGenerate) ==
    /\ generation.pc = "canGenerate"
    /\ generation' = [generation EXCEPT !.pc = IF canGenerate THEN "proceed" ELSE "done"]
    /\ UNCHANGED << gatewayVars, failure, adapter, cacheVars, vault, quotaRequests, pageVars >>

\* proceedWithFlashcardGeneration up to the callChatGPTAPI message: a cached
\* translation turns it into proceedWithFlashcardGenerationWithTranslation
proceedWithFlashcardGeneration(language) ==
    /\ generation.pc = "proceed"
    /\ LET cached == CachedTranslation(generation.text, NaturalLanguageName(language))
       IN  generation' =
              IF generation.path = "full" /\ cached.hit
              THEN [generation EXCEPT !.pc = "callChatGPTAPI", !.path = "cached",
                                      !.translation = cached.translation]
              ELSE [generation EXCEPT !.pc = "callChatGPTAPI"]
    /\ UNCHANGED << gatewayVars, failure, adapter, cacheVars, vault, quotaRequests, pageVars >>

\* whether the code after the callChatGPTAPI message reaches the increment:
\* the full path under response.success, the cached-translation path after
\* every response
CountsGeneration(path, result) ==
    IF path = "full" THEN result = "success" ELSE result # "lastError"

\* the callChatGPTAPI message is answered: the rest of
\* proceedWithFlashcardGeneration or proceedWithFlashcardGenerationWithTranslation
providerResponds(result, language, translation) ==
    LET counted == CountsGeneration(generation.path, result)
        asks == counted /\ UsesQuotaService(generation.isOwnCredits)
        cacheKey == createTranslationCacheKey(generation.text,
                                              NaturalLanguageName(language))
        cacheEntry == [present |-> TRUE, translation |-> translation,
                       timestamp |-> now, sourceText |-> generation.text,
                       targetLanguage |-> NaturalLanguageName(language)]
        caches == generation.path = "full" /\ result = "success"
    IN  /\ generation.pc = "callChatGPTAPI"
        /\ generation' = [generation EXCEPT
                             !.pc = IF asks THEN "increment" ELSE "done",
                             !.outcome = result,
                             !.stored = counted,
                             !.incremented = IF asks THEN @ + 1 ELSE @]
        /\ quotaRequests' = IF asks THEN OneMore("increment") ELSE quotaRequests
        /\ translationCache' = IF caches
                               THEN [translationCache EXCEPT ![cacheKey] = cacheEntry]
                               ELSE translationCache
        /\ lastPut' = IF caches
                      THEN [lastPut EXCEPT ![cacheKey] =
                               [done |-> TRUE, cacheEntry |-> cacheEntry]]
                      ELSE lastPut
        /\ UNCHANGED << now, lookup, cacheSteps >>
        /\ UNCHANGED << gatewayVars, failure, adapter, vault, pageVars >>

\* the incrementFlashcardCount message is answered
incrementFlashcardCount ==
    /\ generation.pc = "increment"
    /\ generation' = [generation EXCEPT !.pc = "done"]
    /\ UNCHANGED << gatewayVars, failure, adapter, cacheVars, vault, quotaRequests, pageVars >>

NextGenerate ==
    \/ ToggleOwnCredits
    \/ \E valid \in BOOLEAN, k \in StoredKeys, pw \in Passwords,
          salt \in PageSalts, iv \in PageIVs :
             handleValidateApiKey(valid, k, pw, salt, iv)
    \/ \E t \in SelectedTexts, l \in Languages, tr \in PopupTranslations :
          setCachedTranslation(t, l, tr)
    \/ \E t \in SelectedTexts, c \in Choices, u \in BOOLEAN : generateFlashcard(t, c, u)
    \/ \E t \in SelectedTexts, l \in Languages, c \in Choices, u \in BOOLEAN :
          generateFlashcardWithCachedTranslation(t, l, c, u)
    \/ isApiKeyValid
    \/ \E can \in BOOLEAN : checkCanGenerateFlashcard(can)
    \/ \E l \in Languages : proceedWithFlashcardGeneration(l)
    \/ \E r \in ProviderResults, l \in Languages, tr \in FlashcardTranslations :
          providerResponds(r, l, tr)
    \/ incrementFlashcardCount

SpecGenerate == Init /\ [][NextGenerate]_vars

(***************************************************************************)
(* The free-trial limit: generations of one user in several tabs, each its *)
(* own content script, against the count the quota service keeps.          *)
(***************************************************************************)
\* the limit the quota service enforces
FreeGenerationLimit == 2

\* POST /api/generate-flashcard: { canGenerate } for the count the service holds
canGenerateAnswer(flashcardCount) == flashcardCount < FreeGenerationLimit

\* generateFlashcard up to the quota check (free trial, user logged in) or
\* to the provider call (own credits, key valid)
tabGenerates(t) ==
    /\ quota.tabs[t].pc = "idle"
    /\ quota.started < FreeGenerationLimit + 2
    /\ quota' = [quota EXCEPT
          !.started = @ + 1,
          !.tabs[t] = [pc |-> IF UsesQuotaService(settings.isOwnCredits)
                              THEN "check" ELSE "provider",
                       isOwnCredits |-> settings.isOwnCredits]]
    /\ UNCHANGED << gatewayVars, failure, adapter, cacheVars, vault, generateVars, validation, regeneration, translationRequests, toasts >>

\* const canGenerate = await checkCanGenerateFlashcard(...): the service
\* answers from its count; a refusal ends in the limit toast
quotaAnswersCheck(t) ==
    /\ quota.tabs[t].pc = "check"
    /\ quota' = [quota EXCEPT
          !.tabs[t].pc = IF canGenerateAnswer(quota.flashcardCount) THEN "provider" ELSE "idle"]
    /\ UNCHANGED << gatewayVars, failure, adapter, cacheVars, vault, generateVars, validation, regeneration, translationRequests, toasts >>

\* the callChatGPTAPI callback of proceedWithFlashcardGeneration: a success
\* stores the flashcard and, in free-trial mode, sends incrementFlashcardCount
tabProviderResponds(t, success) ==
    /\ quota.tabs[t].pc = "provider"
    /\ quota' = [quota EXCEPT
          !.generated = IF success /\ UsesQuotaService(quota.tabs[t].isOwnCredits)
                        THEN @ + 1 ELSE @,
          !.tabs[t].pc = IF success /\ UsesQuotaService(quota.tabs[t].isOwnCredits)
                         THEN "increment" ELSE "idle"]
    /\ UNCHANGED << gatewayVars, failure, adapter, cacheVars, vault, generateVars, validation, regeneration, translationRequests, toasts >>

\* POST /api/increment-flashcard-count: the service adds one to its count
quotaIncrements(t) ==
    /\ quota.tabs[t].pc = "increment"
    /\ quota' = [quota EXCEPT !.flashcardCount = @ + 1,
                              !.tabs[t].pc = "idle"]
    /\ UNCHANGED << gatewayVars, failure, adapter, cacheVars, vault, generateVars, validation, regeneration, translationRequests, toasts >>

NextQuota ==
    \/ ToggleOwnCredits
    \/ \E t \in Tabs : tabGenerates(t)
    \/ \E t \in Tabs : quotaAnswersCheck(t)
    \/ \E t \in Tabs, success \in BOOLEAN : tabProviderResponds(t, success)
    \/ \E t \in Tabs : quotaIncrements(t)

SpecQuota == Init /\ [][NextQuota]_vars

(***************************************************************************)
(* Regeneration of the parts of one stored flashcard (regenerateContent).  *)
(***************************************************************************)
\* settings.regenerationLimit
RegenerationLimit == 2

\* regenerateContent up to the delivery of chrome.storage.sync.get, for an
\* authenticated user and a flashcard that exists: the callback will run on
\* the flashcards object and the mode read here
regenerateContent(s, part) ==
    /\ regeneration.slots[s].pc = "idle"
    /\ regeneration.clicks < RegenerationLimit + 1
    /\ regeneration' = [regeneration EXCEPT
          !.clicks = @ + 1,
          !.slots[s] = [pc |-> "callback", part |-> part,
                        isOwnCredits |-> settings.isOwnCredits,
                        flashcard |-> regeneration.flashcard]]
    /\ UNCHANGED << gatewayVars, failure, adapter, cacheVars, vault, generateVars, validation, quota, translationRequests, toasts >>

\* !settings.isOwnCredits && flashcard.regenerationCount[part] >= settings.regenerationLimit
RegenerationLimitReached(slot) ==
    /\ ~slot.isOwnCredits
    /\ slot.flashcard.regenerationCount[slot.part] >= RegenerationLimit

\* flashcard.regenerationCount[part]++
Counted(slot) ==
    [slot.flashcard EXCEPT !.regenerationCount[slot.part] = @ + 1]

\* the storage callback: the limit toast, or count the regeneration, write
\* the flashcards object back and send the callChatGPTAPI message
regenerateCallback(s) ==
    /\ regeneration.slots[s].pc = "callback"
    /\ LET slot == regeneration.slots[s]
       IN  regeneration' =
             IF RegenerationLimitReached(slot)
             THEN [regeneration EXCEPT !.slots[s] = NoRegeneration]
             ELSE [regeneration EXCEPT
                     !.flashcard = Counted(slot),
                     !.sent = IF slot.isOwnCredits THEN @ ELSE @ + 1,
                     !.slots[s] = [slot EXCEPT !.pc = "provider",
                                               !.flashcard = Counted(slot)]]
    /\ UNCHANGED << gatewayVars, failure, adapter, cacheVars, vault, generateVars, validation, quota, translationRequests, toasts >>

\* the callChatGPTAPI callback: a success with content for the part writes the
\* flashcards object of this call back, anything else writes nothing
regenerationAnswered(s, success) ==
    /\ regeneration.slots[s].pc = "provider"
    /\ regeneration' = [regeneration EXCEPT
          !.flashcard = IF success THEN regeneration.slots[s].flashcard ELSE @,
          !.slots[s] = NoRegeneration]
    /\ UNCHANGED << gatewayVars, failure, adapter, cacheVars, vault, generateVars, validation, quota, translationRequests, toasts >>

NextRegenerate ==
    \/ ToggleOwnCredits
    \/ \E s \in RegenerationSlots, part \in FlashcardParts : regenerateContent(s, part)
    \/ \E s \in RegenerationSlots : regenerateCallback(s)
    \/ \E s \in RegenerationSlots, success \in BOOLEAN : regenerationAnswered(s, success)

SpecRegenerate == Init /\ [][NextRegenerate]_vars

(***************************************************************************)
(* The translation icon: processTranslationRequest and requestTranslation. *)
(***************************************************************************)
\* clicks on the translation icon
MaxTranslations == 3

\* processTranslationRequest up to its first await: the flag returns at once
\* or is set, and chrome.storage.sync.get(['language']) is sent
processTranslationRequest(s, text) ==
    /\ translationRequests.slots[s].pc = "idle"
    /\ translationRequests.clicks < MaxTranslations
    /\ translationRequests' =
          IF translationRequests.translationRequestInProgress
          THEN [translationRequests EXCEPT !.clicks = @ + 1, !.returned = @ + 1]
          ELSE [translationRequests EXCEPT !.clicks = @ + 1,
                                   !.translationRequestInProgress = TRUE,
                                   !.slots[s] = [pc |-> "getLanguage", text |-> text,
                                                 language |-> ""]]
    /\ UNCHANGED << gatewayVars, failure, adapter, cacheVars, vault, generateVars, validation, quota, regeneration, toasts >>

\* the language setting arrives and getCachedTranslation is awaited
languageRead(s, language) ==
    /\ translationRequests.slots[s].pc = "getLanguage"
    /\ translationRequests' = [translationRequests EXCEPT !.slots[s].pc = "getCachedTranslation",
                                          !.slots[s].language = language]
    /\ UNCHANGED << gatewayVars, failure, adapter, cacheVars, vault, generateVars, validation, quota, regeneration, toasts >>

\* getCachedTranslation resolves: a hit shows the popup, a miss calls
\* requestTranslation, which registers its callbacks and returns; then
\* finally { translationRequestInProgress = false; } runs
cacheAnswered(s) ==
    /\ translationRequests.slots[s].pc = "getCachedTranslation"
    /\ LET slot == translationRequests.slots[s]
       IN  translationRequests' =
             IF CachedTranslation(slot.text, slot.language).hit
             THEN [translationRequests EXCEPT !.translationRequestInProgress = FALSE,
                                      !.slots[s] = NoTranslationRequest]
             ELSE [translationRequests EXCEPT !.translationRequestInProgress = FALSE,
                                      !.slots[s].pc = "requestTranslation"]
    /\ UNCHANGED << gatewayVars, failure, adapter, cacheVars, vault, generateVars, validation, quota, regeneration, toasts >>

\* requestTranslation: checkAuth and the settings arrive; the callChatGPTAPI
\* message is sent, or the callback gets the error of a user not logged in
\* or of the local mode
translationRequested(s, isAuthenticated, choice) ==
    /\ translationRequests.slots[s].pc = "requestTranslation"
    /\ translationRequests' =
          IF isAuthenticated /\ choice = "remote"
          THEN [translationRequests EXCEPT !.slots[s].pc = "callChatGPTAPI", !.sent = @ + 1]
          ELSE [translationRequests EXCEPT !.slots[s] = NoTranslationRequest]
    /\ UNCHANGED << gatewayVars, failure, adapter, cacheVars, vault, generateVars, validation, quota, regeneration, toasts >>

\* the callChatGPTAPI message is answered: a translation is cached and
\* shown, an error is shown
translationAnswered(s, success, translated) ==
    LET slot == translationRequests.slots[s]
        cacheKey == createTranslationCacheKey(slot.text, slot.language)
        cacheEntry == [present |-> TRUE, translation |-> translated,
                       timestamp |-> now, sourceText |-> slot.text,
                       targetLanguage |-> slot.language]
    IN  /\ slot.pc = "callChatGPTAPI"
        /\ translationRequests' = [translationRequests EXCEPT !.slots[s] = NoTranslationRequest]
        /\ translationCache' = IF success
                               THEN [translationCache EXCEPT ![cacheKey] = cacheEntry]
                               ELSE translationCache
        /\ lastPut' = IF success
                      THEN [lastPut EXCEPT ![cacheKey] =
                               [done |-> TRUE, cacheEntry |-> cacheEntry]]
                      ELSE lastPut
        /\ UNCHANGED << now, lookup, cacheSteps >>
        /\ UNCHANGED << gatewayVars, failure, adapter, vault, generateVars, validation, quota, regeneration, toasts >>

NextTranslate ==
    \/ \E s \in TranslationSlots, t \in SelectedTexts : processTranslationRequest(s, t)
    \/ \E s \in TranslationSlots, l \in Languages : languageRead(s, l)
    \/ \E s \in TranslationSlots : cacheAnswered(s)
    \/ \E s \in TranslationSlots, a \in BOOLEAN, c \in Choices :
          translationRequested(s, a, c)
    \/ \E s \in TranslationSlots, ok \in BOOLEAN, tr \in PopupTranslations :
          translationAnswered(s, ok, tr)

SpecTranslate == Init /\ [][NextTranslate]_vars

(***************************************************************************)
(* The toast of the content script: showToast and removeCurrentToast.      *)
(***************************************************************************)
\* the body of removeCurrentToast: with a current toast, the pending
\* toastRemovalTimeout is cleared and a new one of 300 ms is started
AfterRemoveCurrentToast(st) ==
    IF st.currentToast # 0
    THEN [st EXCEPT !.toastRemovalTimeout = TRUE]
    ELSE st

\* showToast(message, keepOpen, ellipsis): the pending toastRemovalTimeout is
\* cleared, the current toast leaves the container, the new one enters it;
\* without keepOpen a timer of the message's duration is started, whose
\* handle is not kept
showToast(keepOpen, ellipsis) ==
    /\ toasts.shown < MaxToasts
    /\ LET id == toasts.shown + 1
       IN  toasts' = [toasts EXCEPT
                        !.shown = id,
                        !.toastRemovalTimeout = FALSE,
                        !.toastContainer = (@ \ {toasts.currentToast}) \cup {id},
                        !.currentToast = id,
                        !.keepOpen[id] = keepOpen,
                        !.ellipsis[id] = ellipsis,
                        !.replaced = IF toasts.currentToast # 0
                                     THEN @ \cup {toasts.currentToast} ELSE @,
                        !.durationTimers = IF keepOpen THEN @ ELSE @ \cup {id}]
    /\ UNCHANGED << gatewayVars, failure, adapter, cacheVars, vault, generateVars, validation, quota, regeneration, translationRequests >>

\* a handler of the page calls removeCurrentToast()
removeCurrentToast ==
    /\ toasts' = [AfterRemoveCurrentToast(toasts) EXCEPT
                    !.called = IF toasts.currentToast # 0
                               THEN @ \cup {toasts.currentToast} ELSE @]
    /\ UNCHANGED << gatewayVars, failure, adapter, cacheVars, vault, generateVars, validation, quota, regeneration, translationRequests >>

\* the duration of the toast t shown without keepOpen has passed: its timer
\* calls removeCurrentToast()
durationElapsed(t) ==
    /\ t \in toasts.durationTimers
    /\ toasts' = [AfterRemoveCurrentToast(toasts) EXCEPT !.durationTimers = @ \ {t}]
    /\ UNCHANGED << gatewayVars, failure, adapter, cacheVars, vault, generateVars, validation, quota, regeneration, translationRequests >>

\* the 300 ms of toastRemovalTimeout have passed: the current toast leaves
\* the container
removalTimeoutElapsed ==
    /\ toasts.toastRemovalTimeout
    /\ toasts' = IF toasts.currentToast # 0 /\ toasts.currentToast \in toasts.toastContainer
                 THEN [toasts EXCEPT !.toastContainer = @ \ {toasts.currentToast},
                                     !.timedOut = @ \cup {toasts.currentToast},
                                     !.currentToast = 0,
                                     !.toastRemovalTimeout = FALSE]
                 ELSE [toasts EXCEPT !.toastRemovalTimeout = FALSE]
    /\ UNCHANGED << gatewayVars, failure, adapter, cacheVars, vault, generateVars, validation, quota, regeneration, translationRequests >>

NextToast ==
    \/ \E k \in BOOLEAN, e \in BOOLEAN : showToast(k, e)
    \/ removeCurrentToast
    \/ \E t \in ToastIds : durationElapsed(t)
    \/ removalTimeoutElapsed

SpecToast == Init /\ [][NextToast]_vars

(***************************************************************************)
(* Properties.                                                             *)
(***************************************************************************)
InFlight(c) == calls[c].pc \notin {"idle", "done"}

Succeeded(call) == call.pc = "done" /\ call.response.success

Failed(call) == call.pc = "done" /\ ~call.response.success

\* the step in which call c receives the provider's answer
Completes(c) == calls[c].pc = "fetch" /\ calls'[c].pc = "done"

\* the step in which a request arrives in slot c
Arrives(c) == requestCount' = requestCount + 1 /\ calls'[c] # calls[c]

\* the user and assistant messages of a stored conversation
Exchange(conversation) ==
    IF Len(conversation.messages) <= 1 THEN << >> ELSE Tail(conversation.messages)

Contains(messages, m) == \E i \in 1..Len(messages) : messages[i] = m

\* C1: every stored conversation holds between 1 and 3 messages, the first of
\* which has role system, after any sequence and interleaving of generate calls.
C1_ConversationWindow ==
    \A k \in ConversationKeys :
        conversations[k].present =>
            /\ Len(conversations[k].messages) \in 1..3
            /\ conversations[k].messages[1].role = "system"

\* two overlapping calls have both written their exchange to one conversation
C1_Witness ==
    /\ Succeeded(calls[1]) /\ Succeeded(calls[2])
    /\ \E k \in ConversationKeys : Len(conversations[k].messages) = 3

\* C2: a generate call that succeeds writes exactly [system instruction built
\* from the learning goal it read, its user message, its assistant reply],
\* whatever history it read and for both providers.
C2_WrittenExchange ==
    [][\A c \in CallIds :
          (Completes(c) /\ calls'[c].response.success) =>
              conversations'[ConversationKey(calls[c])] =
                  [present |-> TRUE,
                   messages |-> << SystemMessage(calls[c].type, calls[c].learningGoal),
                                   UserMessage(calls[c].message),
                                   AssistantMessage(calls'[c].response.data) >>]]_vars

\* both slots have succeeded and the record stored is the exchange of slot 1
\* under the learning goal g1
C2_Witness ==
    /\ Succeeded(calls[1])
    /\ conversations[<< "u1", "flashcard" >>].messages =
          << SystemMessage("flashcard", "g1"), UserMessage("m1"), AssistantMessage("r1") >>
    /\ Succeeded(calls[2])

\* C3: on a stored key getOrCreateConversation returns the stored messages with
\* only index 0 replaced by the current system instruction and leaves the store
\* alone; on an absent key it stores and returns one system message.
C3_GetOrCreate ==
    [][\A c \in CallIds :
          LET call == calls[c]
              key == ConversationKey(call)
              stored == conversations[key]
              returned == calls'[c].conversation
          IN  /\ (call.pc = "getConversation" /\ calls'[c] # call /\ stored.present) =>
                    /\ calls'[c].pc = "sendRequest"
                    /\ Len(returned) = Len(stored.messages)
                    /\ returned[1] = SystemMessage(call.type, call.learningGoal)
                    /\ \A i \in 2..Len(stored.messages) : returned[i] = stored.messages[i]
                    /\ conversations' = conversations
              /\ (call.pc = "getConversation" /\ calls'[c] # call /\ ~stored.present) =>
                    /\ calls'[c].pc = "createConversation"
                    /\ conversations' = conversations
              /\ (call.pc = "createConversation" /\ calls'[c] # call) =>
                    /\ calls'[c].pc = "sendRequest"
                    /\ returned = << SystemMessage(call.type, call.learningGoal) >>
                    /\ conversations'[key] = [present |-> TRUE, messages |-> returned]]_vars

\* a hit on a three-message record whose system instruction is out of date
C3_Witness ==
    \E c \in CallIds :
        /\ calls[c].pc = "sendRequest"
        /\ Len(calls[c].conversation) = 3
        /\ conversations[ConversationKey(calls[c])].present
        /\ calls[c].conversation[1] # conversations[ConversationKey(calls[c])].messages[1]
        /\ Tail(calls[c].conversation) = Tail(conversations[ConversationKey(calls[c])].messages)

\* C4: when two calls for one key have both read the conversation before either
\* wrote it and both succeed, the conversation stored after the later write
\* holds the later writer's exchange only; the earlier writer's exchange is gone
\* although its response stays a success.
C4_LostExchange ==
    [][\A c, d \in CallIds :
          (/\ c # d
           /\ Completes(c) /\ calls'[c].response.success
           /\ Succeeded(calls[d])
           /\ ConversationKey(calls[c]) = ConversationKey(calls[d])
           /\ ~Contains(calls[c].conversation, UserMessage(calls[d].message))
           /\ Contains(conversations[ConversationKey(calls[d])].messages,
                       UserMessage(calls[d].message))) =>
              /\ Succeeded(calls'[d])
              /\ ~Contains(conversations'[ConversationKey(calls[d])].messages,
                           UserMessage(calls[d].message))
              /\ Contains(conversations'[ConversationKey(calls[c])].messages,
                          UserMessage(calls[c].message))]_vars

\* slot 2 has succeeded and its exchange is stored, while slot 1 waits for its
\* answer with a request built from a record read before that write
C4_Witness ==
    /\ Succeeded(calls[2])
    /\ Contains(conversations[<< "u1", "flashcard" >>].messages, UserMessage("m2"))
    /\ calls[1].pc = "fetch"
    /\ ConversationKey(calls[1]) = << "u1", "flashcard" >>
    /\ ~Contains(calls[1].conversation, UserMessage("m2"))

\* C5: a generate call that returns a failure leaves the stored user and
\* assistant messages of its conversation as they were.
C5_FailureWritesNothing ==
    [][\A c \in CallIds :
          (Completes(c) /\ ~calls'[c].response.success) =>
              Exchange(conversations'[ConversationKey(calls[c])]) =
                  Exchange(conversations[ConversationKey(calls[c])])]_vars

\* C6: every generate request whose storage reads and network exchange complete
\* receives one response, a success with data or a failure with an error, for
\* every provider preference, purpose type and credential state.
C6_OneResponse ==
    /\ \A c \in CallIds : InFlight(c) ~> (calls[c].pc = "done")
    /\ [](\A c \in CallIds :
            /\ InFlight(c) => ~calls[c].response.sent
            /\ calls[c].pc = "done" =>
                  /\ calls[c].response.sent
                  /\ calls[c].response.success =>
                        (calls[c].response.data # "" /\ calls[c].response.error = "")
                  /\ ~calls[c].response.success =>
                        (calls[c].response.data = "" /\ calls[c].response.error # ""))

\* a request with the user's own Google key has been answered with success
C6_Witness ==
    /\ Succeeded(calls[1])
    /\ calls[1].request.url = "generativelanguage.googleapis.com"
    /\ calls[1].request.credential = << 107, 49 >>

\* C7: a generate call with an unknown purposeType returns the validation error
\* whatever the credential state is.
C7_ValidationFirst ==
    \A c \in CallIds :
        (calls[c].pc # "idle" /\ ~IsKnownType(calls[c].type)) =>
            (calls[c].pc = "done" /\ calls[c].response.error = "Invalid conversation type")

\* C8: a generate call with an unknown purposeType sends no provider request and
\* neither reads nor writes a conversation record: it is answered with a failure
\* in the step in which it arrives.
C8_UnknownTypeTouchesNothing ==
    [][\A c \in CallIds :
          (Arrives(c) /\ ~IsKnownType(calls'[c].type)) =>
              /\ Failed(calls'[c])
              /\ ~calls'[c].request.sent
              /\ conversations' = conversations]_vars

\* an unknown purposeType has been refused by the type validation
C8_Witness ==
    /\ Failed(calls[1])
    /\ ~IsKnownType(calls[1].type)
    /\ calls[1].response.error = "Invalid conversation type"
    /\ ~calls[1].request.sent

\* the blob of the selected provider is stored and does not decrypt with the
\* stored password
Undecryptable(st) ==
    /\ EncryptedKeyField(st).present
    /\ ~DecryptSucceeds(EncryptedKeyField(st), st.installationPassword)

SelectedKeyValidated(st) ==
    IF ProviderOf(st) = GOOGLE THEN st.googleApiKeyValidated ELSE st.apiKeyValidated

DecryptionFailure(call) ==
    /\ Failed(call)
    /\ call.response.error = "failedToDecryptApiKey"
    /\ ~call.request.sent

\* C9 as stated: with no explicit credential and an undecryptable stored blob,
\* generate returns the decryption failure, with no request and no conversation access.
C9_Original ==
    [][\A c \in CallIds :
          (Arrives(c) /\ calls'[c].apiKey = NoKey /\ Undecryptable(settings)) =>
              (DecryptionFailure(calls'[c]) /\ conversations' = conversations)]_vars

\* C9 amended: in own-credits mode with the selected provider's key flagged
\* validated, a call without explicit credential whose stored blob does not
\* decrypt returns the decryption failure, with no request and no conversation access.
C9_DecryptionFailureAborts ==
    [][\A c \in CallIds :
          (/\ Arrives(c) /\ calls'[c].apiKey = NoKey
           /\ settings.isOwnCredits /\ SelectedKeyValidated(settings)
           /\ settings.installationPassword # NoPassword
           /\ Undecryptable(settings)) =>
              (DecryptionFailure(calls'[c]) /\ conversations' = conversations)]_vars

\* a call has been refused because the stored blob did not decrypt
C9_Witness ==
    /\ DecryptionFailure(calls[1])
    /\ calls[1].apiKey = NoKey
    /\ calls[1].decrypted

\* C10 as stated: with an explicit credential the stored blob is never decrypted
\* and the explicit value is the credential of the request sent.
C10_Original ==
    \A c \in CallIds :
        /\ calls[c].decrypted => calls[c].apiKey = NoKey
        /\ (calls[c].pc # "idle" /\ calls[c].apiKey # NoKey) =>
              /\ calls[c].response.error # "failedToDecryptApiKey"
              /\ calls[c].request.sent => calls[c].request.credential = calls[c].apiKey

\* C10 amended: with an explicit credential the stored blob is never decrypted,
\* and the explicit value is the credential of every request that carries one;
\* the free-tier OpenAI request goes to the proxy and carries none.
C10_ExplicitCredential ==
    \A c \in CallIds :
        /\ calls[c].decrypted => calls[c].apiKey = NoKey
        /\ (calls[c].pc # "idle" /\ calls[c].apiKey # NoKey) =>
              /\ calls[c].response.error # "failedToDecryptApiKey"
              /\ calls[c].request.sent =>
                    IF calls[c].request.url = "worker"
                    THEN calls[c].request.credential = NoKey
                    ELSE calls[c].request.credential = calls[c].apiKey

\* an explicit key has been sent to OpenAI while another key is stored
C10_Witness ==
    /\ calls[1].pc = "fetch"
    /\ calls[1].apiKey = << 107, 50 >>
    /\ calls[1].request.url = "api.openai.com"
    /\ calls[1].request.credential = << 107, 50 >>
    /\ settings.encryptedApiKey.present
    /\ decryptApiKey(settings.encryptedApiKey, settings.installationPassword).key
          = << 107, 49 >>

(***************************************************************************)
(* Properties of the error classification.                                 *)
(***************************************************************************)
\* the text of the provider's error message, or of the status line without one
PayloadText(response) == MessageOr(response.errorData, {})

Mentions(text, needles) == \E n \in needles : includes(toLowerCase(text), n)

MentionsModelUnavailable(text) == Mentions(text, ModelErrorIndicators \cup ModelErrorPatterns)

\* the signatures of a failed network call the code looks for in an error text
TransportSignature(text) ==
    \/ includes(text, "Failed to fetch") \/ includes(text, "Network request failed")
    \/ includes(text, "network") \/ includes(text, "connection")
    \/ (includes(text, "fetch") /\ includes(text, "timeout"))

HttpFailure == failure.phase # "idle" /\ failure.kind = "http"

Reported == failure.phase = "reported"

ServerError(status) == status >= 500 /\ status <= 599

AuthToasts ==
    {"apiError401IncorrectKey", "apiError401NotMember", "apiError401InvalidAuth",
     "apiError403CountryNotSupported", "apiError403PermissionDenied"}

RateLimitToasts == {"apiError429QuotaExceeded", "apiError429RateLimit", "apiError503SlowDown"}

\* C11: a failure of the network call itself is reported as a network failure,
\* never as an unsupported model and never as a generic failure.
C11_TransportIsNetwork ==
    (Reported /\ failure.kind = "transport") =>
        (failure.toast = "networkError" /\ ~failure.response.isUnsupportedModel)

\* C12 as stated: an HTTP error outside 500-599 whose payload message carries a
\* model-unavailability indicator, substring or pattern, and no transport
\* signature is flagged as unsupported model.
C12_Original ==
    (/\ HttpFailure
     /\ ~ServerError(failure.response.status)
     /\ MentionsModelUnavailable(PayloadText(failure.response))
     /\ ~TransportSignature(PayloadText(failure.response))) =>
        failure.response.isUnsupportedModel

\* C12 amended: the flag is raised when the message contains one of the five
\* substrings (any case), and for the pattern 'structured outputs ... not
\* supported' only when the payload type is invalid_request_error.
C12_UnsupportedModelFlag ==
    (/\ HttpFailure
     /\ ~ServerError(failure.response.status)
     /\ \/ Mentions(PayloadText(failure.response), ModelErrorIndicators)
        \/ /\ failure.response.errorData.type = "invalid_request_error"
           /\ Mentions(PayloadText(failure.response), ModelErrorPatterns)
     /\ ~TransportSignature(PayloadText(failure.response))) =>
        failure.response.isUnsupportedModel

\* status 404, type invalid_request_error, "model 'gpt-999' does not exist"
C12_Witness ==
    /\ HttpFailure
    /\ failure.response.status = 404
    /\ failure.response.errorData =
          [hasError |-> TRUE, type |-> "invalid_request_error",
           message |-> {"does not exist"}]
    /\ failure.response.isUnsupportedModel

\* C13: a 5xx response whose payload carries a model-unavailability indicator
\* is classified as unsupported model, not as a network failure.
C13_ServerErrorWithModelIndicator ==
    (/\ HttpFailure
     /\ ServerError(failure.response.status)
     /\ Mentions(PayloadText(failure.response), ModelErrorIndicators)
     /\ ~TransportSignature(PayloadText(failure.response))) =>
        failure.response.isUnsupportedModel

\* C14 as stated: a 401 or 403 with no transport signature and no
\* model-unavailability indicator is reported as an authentication or
\* permission failure.
C14_Original ==
    (/\ Reported /\ HttpFailure
     /\ failure.response.status \in {401, 403}
     /\ ~TransportSignature(failure.response.error)
     /\ ~MentionsModelUnavailable(PayloadText(failure.response))) =>
        failure.toast \in AuthToasts

\* C14 amended: ... and whose error text does not contain "JSON" ...
C14_AuthStatus ==
    (/\ Reported /\ HttpFailure
     /\ failure.response.status \in {401, 403}
     /\ ~TransportSignature(failure.response.error)
     /\ ~includes(failure.response.error, "JSON")
     /\ ~MentionsModelUnavailable(PayloadText(failure.response))) =>
        failure.toast \in AuthToasts

\* a 401 with "Incorrect API key" has been reported as an incorrect key
C14_Witness ==
    /\ Reported /\ HttpFailure
    /\ failure.response.status = 401
    /\ failure.response.errorData.message = {"Incorrect API key"}
    /\ failure.toast = "apiError401IncorrectKey"

\* no rule before the rate-limit rule applies to the failure
NoEarlierRule ==
    /\ ~TransportSignature(failure.response.error)
    /\ ~ServerError(failure.response.status)
    /\ ~MentionsModelUnavailable(PayloadText(failure.response))
    /\ failure.response.status \notin {401, 403}

MentionsQuota(text) == Mentions(text, {"quota", "billing", "credits"})

\* C15 as stated: with no earlier rule, status 429 or a payload that mentions
\* quota, billing or credits is reported as a rate limit, whatever the status.
C15_Original ==
    (/\ Reported /\ HttpFailure /\ NoEarlierRule
     /\ \/ failure.response.status = 429
        \/ MentionsQuota(PayloadText(failure.response))) =>
        failure.toast \in RateLimitToasts

\* C15 amended: with no earlier rule and no "JSON" in the error text, status
\* 429 is reported as a rate limit, as quota exceeded when the payload mentions
\* quota, billing or credits; under any other status the report follows the
\* status (400 with a quota message is an invalid request) and is never one of
\* the 429 messages.
C15_RateLimitStatus ==
    /\ (/\ Reported /\ HttpFailure /\ NoEarlierRule
        /\ ~includes(failure.response.error, "JSON")
        /\ failure.response.status = 429) =>
           /\ failure.toast \in RateLimitToasts
           /\ MentionsQuota(PayloadText(failure.response)) =>
                 failure.toast = "apiError429QuotaExceeded"
    /\ (Reported /\ HttpFailure /\ failure.response.status # 429) =>
           failure.toast \notin {"apiError429QuotaExceeded", "apiError429RateLimit"}
    /\ (/\ Reported /\ HttpFailure /\ NoEarlierRule
        /\ ~includes(failure.response.error, "JSON")
        /\ failure.response.status = 400) =>
           failure.toast \in {"apiError400InvalidRequest", "apiError400FailedPrecondition"}

\* a 429 whose payload mentions the quota has been reported as quota exceeded
C15_Witness ==
    /\ Reported /\ HttpFailure
    /\ failure.response.status = 429
    /\ failure.response.errorData.message = {"exceeded your quota"}
    /\ failure.toast = "apiError429QuotaExceeded"

\* C16: every failure response of generate has success=false, a non-empty error
\* message and the provider tag, also when the failure is raised before the
\* provider is contacted; a failure from an HTTP error response carries its status.
C16_FailureShape ==
    \A c \in CallIds :
        Failed(calls[c]) =>
            /\ calls[c].response.sent
            /\ calls[c].response.error # ""
            /\ calls[c].response.provider \in AI_PROVIDERS
            /\ calls[c].response.error = "HTTP error" => calls[c].response.status # 0

(***************************************************************************)
(* Properties of the response schemas.                                     *)
(***************************************************************************)
PropertyNames(schema) == { p[1] : p \in schema.properties }

PrimitiveTypes(schema) == { p[2] : p \in schema.properties }

BuiltSchemas == { adapter.responseFormat, adapter.googleResponseSchema } \ {NoSchema}

FlashcardBase == {"definition", "translation", "example_1", "example_2", "example_3"}

\* C17: for purpose flashcard and both providers the fields asked for are the
\* five base fields, plus mnemonic exactly when the user text contains
\* "mnemonic"; no other field is asked for.
C17_FlashcardFields ==
    adapter.type = "flashcard" =>
        \A schema \in BuiltSchemas :
            /\ Range(schema.required) =
                  FlashcardBase \cup (IF "mnemonic" \in adapter.userMessage
                                      THEN {"mnemonic"} ELSE {})
            /\ PropertyNames(schema) = Range(schema.required)

\* both schemas are built for a flashcard whose text says Mnemonic with a
\* capital only: neither asks for the mnemonic
C17_Witness ==
    /\ adapter.type = "flashcard"
    /\ adapter.userMessage = {"word", "Mnemonic"}
    /\ Len(adapter.responseFormat.required) = 5
    /\ Len(adapter.googleResponseSchema.required) = 5

UpperCase(name) ==
    CASE name = "string" -> "STRING"
      [] name = "object" -> "OBJECT"
      [] OTHER -> name

BothBuilt == adapter.responseFormat # NoSchema /\ adapter.googleResponseSchema # NoSchema

\* C18: for every purpose type and user text both variants ask for the same
\* required fields: example_1..3 for examples, translation for the popup, one
\* field named after the purpose for definition, mnemonic and translation;
\* they differ in the envelope and in the case of the type names only.
C18_SameFields ==
    BothBuilt =>
        /\ adapter.responseFormat.required = adapter.googleResponseSchema.required
        /\ PropertyNames(adapter.responseFormat) = PropertyNames(adapter.googleResponseSchema)
        /\ { UpperCase(t) : t \in PrimitiveTypes(adapter.responseFormat) } =
              PrimitiveTypes(adapter.googleResponseSchema)
        /\ UpperCase(adapter.responseFormat.type) = adapter.googleResponseSchema.type
        /\ adapter.responseFormat.envelope # adapter.googleResponseSchema.envelope
        /\ adapter.type = "examples" =>
              Range(adapter.responseFormat.required) = {"example_1", "example_2", "example_3"}
        /\ adapter.type = "translation_popup" =>
              Range(adapter.responseFormat.required) = {"translation"}
        /\ adapter.type \in {"definition", "mnemonic", "translation"} =>
              Range(adapter.responseFormat.required) = {adapter.type}

\* both schemas are built for the translation popup
C18_Witness ==
    /\ BothBuilt
    /\ adapter.type = "translation_popup"
    /\ adapter.googleResponseSchema.required = << "translation" >>

\* C19: a request sent to the Google provider holds exactly one turn, of role
\* user, made of the current system instruction and the user text of this call;
\* nothing of the stored history is sent.
C19_GoogleSingleTurn ==
    \A c \in CallIds :
        (calls[c].pc = "fetch" /\ calls[c].provider = GOOGLE) =>
            LET sent == calls[c].request.messages
            IN  /\ Len(sent) = 1
                /\ sent[1].role = "user"
                /\ sent[1].content.text = calls[c].message
                /\ sent[1].content.system = calls[c].conversation[1].content
                /\ calls[c].conversation[1].content =
                      getSystemPrompt(calls[c].type, calls[c].learningGoal)
                /\ \A i \in 2..Len(calls[c].conversation) :
                      \A j \in 1..Len(sent) : sent[j] # calls[c].conversation[i]

\* a Google request is in flight for a conversation that has a stored exchange
C19_Witness ==
    \E c \in CallIds :
        /\ calls[c].pc = "fetch"
        /\ calls[c].provider = GOOGLE
        /\ Len(calls[c].conversation) = 3
        /\ Len(calls[c].request.messages) = 1

\* the step in which a getCachedTranslation resolves
Resolves == lookup' # lookup /\ lookup'.done

\* the entry stored under the key of the lookup that resolves
EntryRead == translationCache[createTranslationCacheKey(lookup'.text, lookup'.language)]

\* C20: a get on a stored entry written at time t returns the stored
\* translation whenever now - t <= 24h, exactly 24h included, and a miss
\* whenever now - t > 24h.
C20_FreshFor24Hours ==
    [][ (Resolves /\ EntryRead.present) =>
            /\ (now - EntryRead.timestamp <= 86400000) =>
                   (lookup'.hit /\ lookup'.translation = EntryRead.translation)
            /\ (now - EntryRead.timestamp > 86400000) => ~lookup'.hit ]_vars

\* a get answered with the stored translation exactly 24 hours after the put
C20_Witness ==
    LET entry == translationCache[createTranslationCacheKey(lookup.text, lookup.language)]
    IN  /\ lookup.done
        /\ lookup.hit
        /\ entry.present
        /\ lookup.translation = entry.translation
        /\ lookup.at - entry.timestamp = 86400000

\* the step in which a setCachedTranslation writes under key k
Puts(k) == lastPut'[k] # lastPut[k]

\* C21: a cache read leaves every cache entry as it was, whether it hits or
\* misses; a stored entry changes only when a put writes its key, so an
\* expired entry stays stored until then.
C21_ReadLeavesStorage ==
    [][ /\ Resolves => translationCache' = translationCache
        /\ \A k \in CacheKeys :
              translationCache'[k] # translationCache[k] =>
                  (Puts(k) /\ lookup' = lookup) ]_vars

\* a get has missed on an expired entry, which is still stored
C21_Witness ==
    LET entry == translationCache[createTranslationCacheKey(lookup.text, lookup.language)]
    IN  /\ lookup.done
        /\ ~lookup.hit
        /\ entry.present
        /\ lookup.at - entry.timestamp > 86400000

\* C22: a put overwrites whatever its key held (nothing, a fresh or an expired
\* entry): the stored entry is then the one of the most recent put on the key,
\* created at the time of that put, and a get on the key within the next 24h
\* returns its translation.
C22_LastWriteWins ==
    [][ /\ \A k \in CacheKeys :
              /\ Puts(k) => lastPut'[k].cacheEntry.timestamp = now
              /\ lastPut'[k].done => translationCache'[k] = lastPut'[k].cacheEntry
        /\ LET k == createTranslationCacheKey(lookup'.text, lookup'.language)
           IN  (/\ Resolves
                /\ lastPut[k].done
                /\ now - lastPut[k].cacheEntry.timestamp <= 86400000) =>
                   (/\ lookup'.hit
                    /\ lookup'.translation = lastPut[k].cacheEntry.translation) ]_vars

\* a get returned one translation and a later put on the same key, made while
\* that entry was fresh, has replaced it with another
C22_Witness ==
    LET k == createTranslationCacheKey(lookup.text, lookup.language)
    IN  /\ lookup.done
        /\ lookup.hit
        /\ lastPut[k].done
        /\ translationCache[k] = lastPut[k].cacheEntry
        /\ translationCache[k].translation # lookup.translation
        /\ now - lookup.at <= 86400000

\* C23: a get for a text answers with the fresh entry stored under its key
\* even when that entry was written for another text with the same hash; the
\* stored sourceText is not compared.
C23_CollisionReturnsOther ==
    [][ (/\ Resolves
         /\ EntryRead.present
         /\ EntryRead.sourceText # lookup'.text
         /\ createTextHash(EntryRead.sourceText) = createTextHash(lookup'.text)
         /\ now - EntryRead.timestamp <= 86400000) =>
            (lookup'.hit /\ lookup'.translation = EntryRead.translation) ]_vars

\* a get for one text was answered with the translation put for another text
C23_Witness ==
    LET entry == translationCache[createTranslationCacheKey(lookup.text, lookup.language)]
    IN  /\ lookup.done
        /\ lookup.hit
        /\ entry.present
        /\ entry.sourceText # lookup.text
        /\ entry.timestamp <= lookup.at
        /\ lookup.translation = entry.translation

(***************************************************************************)
(* Properties of the credential vault.                                     *)
(***************************************************************************)
\* an undamaged blob has been decrypted with the password it was made with
RoundTrip ==
    /\ vault.phase = "decrypted"
    /\ vault.damage = ""
    /\ vault.tried = vault.password
    /\ vault.apiKey # NoKey

\* no unpaired surrogate code unit
WellFormed(units) ==
    \A i \in 1..Len(units) :
        /\ (units[i] >= 55296 /\ units[i] <= 56319) =>
              (i < Len(units) /\ units[i + 1] >= 56320 /\ units[i + 1] <= 57343)
        /\ (units[i] >= 56320 /\ units[i] <= 57343) =>
              (i > 1 /\ units[i - 1] >= 55296 /\ units[i - 1] <= 56319)

\* C24 as stated: for every non-empty secret S and password P,
\* decryptApiKey(encryptApiKey(S, P), P) returns S.
C24_Original == RoundTrip => (vault.result.ok /\ vault.result.key = vault.apiKey)

\* C24 amended: for every non-empty secret S that has no unpaired surrogate
\* and does not begin with U+FEFF, and every password P,
\* decryptApiKey(encryptApiKey(S, P), P) returns S.
C24_RoundTrip ==
    (RoundTrip /\ WellFormed(vault.apiKey) /\ vault.apiKey[1] # 65279) =>
        (vault.result.ok /\ vault.result.key = vault.apiKey)

\* a key whose UTF-8 form is longer than its UTF-16 form has come back unchanged
C24_Witness ==
    /\ RoundTrip
    /\ vault.result.ok
    /\ vault.result.key = vault.apiKey
    /\ Len(vault.blob.encrypted.data) > Len(vault.apiKey)

\* C25: decrypting with a password other than the one of the encryption, or
\* decrypting a damaged blob, fails with an error and gives no plaintext; the
\* gateway reports the one failure failedToDecryptApiKey in all these cases.
C25_WrongPasswordOrDamageFails ==
    (/\ vault.phase = "decrypted"
     /\ (vault.tried # vault.password \/ vault.damage # "")) =>
        /\ ~vault.result.ok
        /\ vault.result.key = NoKey
        /\ vault.result.error # ""
        /\ ~vault.caller.ok
        /\ vault.caller.error = "failedToDecryptApiKey"
        /\ vault.caller.apiKeyToUse = NoKey

\* an undamaged blob has been refused under the other password
C25_Witness ==
    /\ vault.phase = "decrypted"
    /\ vault.damage = ""
    /\ vault.tried # vault.password
    /\ ~vault.result.ok
    /\ vault.caller.error = "failedToDecryptApiKey"

\* C26: any two calls of encryptApiKey give different salts, different IVs
\* and different ciphertexts, also for the same secret and password.
C26_FreshSaltAndIV ==
    \A i, j \in 1..Len(vault.produced) :
        i # j =>
            /\ vault.produced[i].blob.salt # vault.produced[j].blob.salt
            /\ vault.produced[i].blob.iv # vault.produced[j].blob.iv
            /\ vault.produced[i].blob.encrypted # vault.produced[j].blob.encrypted

\* the same secret has been encrypted twice under the same password
C26_Witness ==
    /\ Len(vault.produced) >= 2
    /\ vault.produced[1].apiKey = vault.produced[2].apiKey
    /\ vault.produced[1].password = vault.produced[2].password
    /\ vault.produced[1].blob # vault.produced[2].blob

\* the encrypted key blobs in storage
StoredBlobs(st) == { b \in {st.encryptedApiKey, st.encryptedGoogleApiKey} : b.present }

\* C27: every stored blob was made under the installation password that is
\* stored with it and decrypts with it, and a write of one provider's blob
\* has cleared the other's.
C27_BlobMatchesPassword ==
    /\ \A b \in StoredBlobs(settings) :
          /\ b.encrypted.key.password = TextEncoder_encode(settings.installationPassword)
          /\ b.encrypted.key.salt = b.salt
          /\ decryptApiKey(b, settings.installationPassword).ok
    /\ ~(settings.encryptedApiKey.present /\ settings.encryptedGoogleApiKey.present)

\* the Google key has been stored under the second password and salt, and the
\* OpenAI blob is cleared
C27_Witness ==
    /\ settings.encryptedGoogleApiKey.present
    /\ settings.encryptedGoogleApiKey.salt = 3
    /\ settings.installationPassword = << 112, 50 >>
    /\ ~settings.encryptedApiKey.present
    /\ ~settings.apiKeyValidated

\* the credentials the model's operations handle
Credentials == (StoredKeys \cup ExplicitKeys) \ {NoKey}

\* what a reader of the key-value store finds there as strings or bytes
\* without a decryption: the password, and the bytes of a blob that is not
\* encrypted under a key
ReadableValues ==
    {settings.installationPassword}
        \cup { b.encrypted.data : b \in { x \in StoredBlobs(settings) :
                                             x.encrypted.key = NoCryptoKey } }

\* C28: the key-value store never holds a credential in plaintext: a blob is
\* {salt, iv, encrypted} with the key's bytes under AES-GCM, and a stored
\* conversation holds messages of a role and a content only.
C28_NoPlaintextCredential ==
    /\ \A k \in Credentials :
          k \notin ReadableValues /\ TextEncoder_encode(k) \notin ReadableValues
    /\ \A b \in StoredBlobs(settings) :
          /\ DOMAIN b = {"present", "salt", "iv", "encrypted"}
          /\ b.encrypted.key # NoCryptoKey
    /\ DOMAIN settings = DOMAIN DefaultSettings
    /\ \A key \in ConversationKeys :
          /\ DOMAIN conversations[key] = {"present", "messages"}
          /\ \A i \in 1..Len(conversations[key].messages) :
                DOMAIN conversations[key].messages[i] = {"role", "content"}

\* a stored key has been decrypted and sent, and the conversation of that
\* call has been written
C28_Witness ==
    /\ calls[1].pc = "done"
    /\ calls[1].decrypted
    /\ calls[1].response.success
    /\ settings.encryptedApiKey.present
    /\ conversations[<< calls[1].userId, calls[1].type >>].present

(***************************************************************************)
(* Properties of the flashcard generation.                                 *)
(***************************************************************************)
\* C29: a generation that read own-credits mode sends no request to the
\* quota service, neither the generation check nor the count increment.
C29_OwnCreditsSkipsQuota ==
    [][ /\ quotaRequests' # quotaRequests => ~generation'.isOwnCredits
        /\ generation'.isOwnCredits =>
              /\ ~generation'.checked
              /\ generation'.incremented = 0
              /\ generation'.pc \notin {"canGenerate", "increment"} ]_vars

\* an own-credits generation has stored its flashcard after a successful call
C29_Witness ==
    /\ generation.isOwnCredits
    /\ generation.pc = "done"
    /\ generation.outcome = "success"
    /\ generation.stored
    /\ quotaRequests = [check |-> 0, increment |-> 0]

\* C30: a free-trial generation sends one increment when its provider call
\* succeeded and none when its provider call returned a failure, on the full
\* path and on the cached-translation path.
C30_CountedOnSuccessOnly ==
    (~generation.isOwnCredits /\ generation.pc \in {"increment", "done"}) =>
        /\ generation.outcome = "success" => generation.incremented = 1
        /\ generation.outcome = "failure" => generation.incremented = 0

(***************************************************************************)
(* Properties of the gateway: replay, request shape, validated-flag gate.  *)
(***************************************************************************)
\* the record a successful call with this message, learning goal and reply writes
StoredExchange(call, replyText) ==
    [present |-> TRUE,
     messages |-> << SystemMessage(call.type, call.learningGoal),
                     UserMessage(call.message),
                     AssistantMessage(replyText) >>]

\* C33: replaying a successful generate call with the same user message, the
\* same learning goal and the same provider reply leaves the stored
\* conversation as it was after the first call.
C33_ReplayIdempotent ==
    [][\A c \in CallIds :
          ( /\ Completes(c)
            /\ calls'[c].response.success
            /\ conversations[ConversationKey(calls[c])] =
                  StoredExchange(calls[c], calls'[c].response.data) ) =>
              conversations' = conversations]_vars

\* a second request with the same message and reply has succeeded on a
\* conversation that held the exchange, for either provider
C33_Witness ==
    /\ requestCount = 2
    /\ Succeeded(calls[1])
    /\ calls[1].request.sent
    /\ conversations[ConversationKey(calls[1])] =
          [present |-> TRUE,
           messages |-> << SystemMessage(calls[1].type, LearningGoalOf(settings)),
                           UserMessage(calls[1].message),
                           AssistantMessage(calls[1].response.data) >>]
    /\ \A k \in ConversationKeys \ {ConversationKey(calls[1])} : ~conversations[k].present

\* C34: a request sent to the OpenAI-like provider carries at most 4 messages:
\* the system instruction first, then the previous user/assistant pair when
\* there is one, then the new user message last.
C34_OpenAIRequestShape ==
    \A c \in CallIds :
        (calls[c].pc = "fetch" /\ calls[c].provider = OPENAI) =>
            LET sent == calls[c].request.messages
                n == Len(sent)
            IN  /\ n \in {2, 4}
                /\ sent[1] = SystemMessage(calls[c].type, calls[c].learningGoal)
                /\ sent[n] = UserMessage(calls[c].message)
                /\ n = 4 => /\ sent[2].role = "user"
                            /\ sent[3].role = "assistant"
                /\ \A i \in 2..n : sent[i].role # "system"

\* an OpenAI request carrying a stored pair is in flight after an earlier call
C34_Witness ==
    \E c \in CallIds :
        /\ calls[c].pc = "fetch"
        /\ calls[c].provider = OPENAI
        /\ requestCount = MaxRequests
        /\ Len(calls[c].request.messages) = 4
        /\ calls[c].request.messages[2] = UserMessage("m1")
        /\ calls[c].request.messages[3] = AssistantMessage("r1")

\* the validated flag of the selected provider
SelectedProviderValidated(st) ==
    IF ProviderOf(st) = GOOGLE THEN st.googleApiKeyValidated ELSE st.apiKeyValidated

\* C36: in own-credits mode with the validated flag of the selected provider
\* false, a generate call fails before any decryption, conversation access or
\* network request, with or without an explicit credential.
C36_ValidatedFlagGate ==
    [][\A c \in CallIds :
          ( /\ Arrives(c)
            /\ settings.isOwnCredits
            /\ ~SelectedProviderValidated(settings) ) =>
              /\ Failed(calls'[c])
              /\ calls'[c].response.error \in {"enterValidApiKey", "enterValidGoogleApiKey"}
              /\ ~calls'[c].decrypted
              /\ ~calls'[c].request.sent
              /\ conversations' = conversations]_vars

\* a call with an explicit credential was refused while a blob was stored
\* for the selected provider
C36_Witness ==
    /\ Failed(calls[1])
    /\ calls[1].response.error = "enterValidApiKey"
    /\ calls[1].apiKey = << 107, 50 >>
    /\ settings.isOwnCredits
    /\ ~settings.apiKeyValidated
    /\ settings.encryptedApiKey.present
    /\ ~calls[1].request.sent

\* C35: when isOwnCredits is false a generation request goes to the backend
\* proxy with the default model and the userId and without a user credential,
\* never to a provider endpoint, whatever the selected provider is.
C35_FreeTrialUsesProxy ==
    \A c \in CallIds :
        (calls[c].pc = "fetch" /\ ~calls[c].isOwnCredits) =>
            /\ calls[c].request.url = WORKER_URL
            /\ calls[c].request.model = DEFAULT_REMOTE_MODEL
            /\ calls[c].request.userId = calls[c].userId
            /\ calls[c].request.credential = NoKey

\* C37: at most one of apiKeyValidated and googleApiKeyValidated is true, and
\* a flag that is true has the encrypted blob of its provider and the
\* installation password stored with it.
C37_ValidatedFlags ==
    /\ ~(settings.apiKeyValidated /\ settings.googleApiKeyValidated)
    /\ settings.apiKeyValidated =>
          /\ settings.encryptedApiKey.present
          /\ settings.installationPassword # NoPassword
    /\ settings.googleApiKeyValidated =>
          /\ settings.encryptedGoogleApiKey.present
          /\ settings.installationPassword # NoPassword

\* the OpenAI key was validated while Google is the stored provider: its
\* validation was answered after the provider change
C37_Witness ==
    /\ settings.apiKeyValidated
    /\ settings.selectedProvider = GOOGLE
    /\ settings.encryptedApiKey.present
    /\ ~settings.encryptedGoogleApiKey.present
    /\ validation.pc = "idle"

(***************************************************************************)
(* Properties of the limits of the free trial.                             *)
(***************************************************************************)
\* C31: with a quota service that answers canGenerate exactly when the count
\* is below freeGenerationLimit and adds one per increment request, the number
\* of flashcards generated in free-trial mode never exceeds
\* freeGenerationLimit, under any interleaving of generations.
C31_LimitNeverExceeded == quota.generated <= FreeGenerationLimit

\* C32: in free-trial mode the number of regeneration requests sent to the
\* provider for one flashcard never exceeds regenerationLimit, under any
\* sequence and interleaving of regenerate actions on its parts.
C32_RegenerationLimit == regeneration.sent <= RegenerationLimit

(***************************************************************************)
(* Properties of the content script: cache keys, translation requests,     *)
(* toasts.                                                                 *)
(***************************************************************************)
\* C38: the cache reads and writes made for one selected text under one
\* language setting use one cache key on every path: a write goes to the key
\* of the language setting, and the flashcard generation finds a translation
\* that is cached and fresh under that key.
C38_SameCacheKey ==
    [][ /\ \A k \in CacheKeys :
              translationCache'[k] # translationCache[k] => k[2] \in Languages
        /\ ( /\ generation.pc = "proceed"
             /\ generation.path = "full"
             /\ generation'.pc = "callChatGPTAPI" ) =>
               ( generation'.path = "cached" <=>
                    \E l \in Languages : CachedTranslation(generation.text, l).hit ) ]_vars

\* the translation requests sent to the provider and not yet answered
TranslationsInFlight ==
    Cardinality({ s \in TranslationSlots : translationRequests.slots[s].pc = "callChatGPTAPI" })

\* C39: at most one translation request is in flight: from the sending of a
\* request to the handling of its answer, a further processTranslationRequest
\* call returns without sending one.
C39_OneTranslationInFlight == TranslationsInFlight <= 1

\* C40: a toast shown with keepOpen = true leaves the container only when
\* removeCurrentToast was called for it by a handler or a later showToast
\* replaced it, never by the timer of an earlier toast; and the container
\* holds at most one toast.
C40_KeepOpenToastStays ==
    /\ \A t \in toasts.timedOut : toasts.keepOpen[t] => t \in toasts.called
    /\ Cardinality(toasts.toastContainer) <= 1

====
